---- MODULE Spec2Model ----
(***************************************************************************)
(* The SemMedDB predication pipeline of parser.py: the cleaning steps of   *)
(* construct_semmed_predication_data_frame, the Node Normalizer lookup and *)
(* the document generation of load_data.                                   *)
(*                                                                         *)
(* A data frame is a sequence of records (its rows, in order); a text cell *)
(* is a sequence of one-character strings, so that splitting on "|", the   *)
(* character-class check, startswith("C"), the string ordering of          *)
(* sort_values and "-".join are computed and not assumed.  A missing cell  *)
(* (pandas NaN / <NA>) is the value NaN.                                   *)
(***************************************************************************)
EXTENDS Integers, Sequences, FiniteSets, TLC

NaN == <<"NaN">>

-----------------------------------------------------------------------------
(* Text helpers                                                            *)

\* Code point of a character (string comparison in sort_values is by code point).
Ord(c) ==
    CASE c = "-" -> 45
      [] c = "0" -> 48 [] c = "1" -> 49 [] c = "2" -> 50 [] c = "3" -> 51
      [] c = "4" -> 52 [] c = "5" -> 53 [] c = "6" -> 54 [] c = "7" -> 55
      [] c = "8" -> 56 [] c = "9" -> 57
      [] c = "C" -> 67 [] c = "N" -> 78
      [] c = "a" -> 97 [] c = "b" -> 98 [] c = "c" -> 99 [] c = "d" -> 100
      [] c = "e" -> 101 [] c = "m" -> 109 [] c = "n" -> 110 [] c = "o" -> 111
      [] c = "p" -> 112 [] c = "x" -> 120 [] c = "y" -> 121 [] c = "z" -> 122
      [] c = "|" -> 124

\* s < t in Python's string order.
RECURSIVE StrLess(_, _)
StrLess(s, t) ==
    IF t = <<>> THEN FALSE
    ELSE IF s = <<>> THEN TRUE
    ELSE IF Ord(Head(s)) # Ord(Head(t)) THEN Ord(Head(s)) < Ord(Head(t))
    ELSE StrLess(Tail(s), Tail(t))

\* Series.str.contains(r"\|")
str_contains_pipe(s) == \E i \in 1..Len(s) : s[i] = "|"

\* Series.str.split(r"\|"): the pieces between the delimiters, empty ones kept.
RECURSIVE str_split(_)
str_split(s) ==
    IF ~str_contains_pipe(s) THEN <<s>>
    ELSE LET k == CHOOSE i \in 1..Len(s) :
                      s[i] = "|" /\ \A j \in 1..(i - 1) : s[j] # "|"
         IN  <<SubSeq(s, 1, k - 1)>> \o str_split(SubSeq(s, k + 1, Len(s)))

\* Series.str.startswith("C")
str_startswith_C(s) == Len(s) > 0 /\ s[1] = "C"

\* Series.str.match(r"^[C0-9|]+$")
str_match_cui_pattern(s) ==
    /\ Len(s) > 0
    /\ \A i \in 1..Len(s) :
          s[i] \in {"C", "0", "1", "2", "3", "4", "5", "6", "7", "8", "9", "|"}

\* Decimal digits of a natural number, as str(n) / an f-string writes it.
Digit(d) == CASE d = 0 -> "0" [] d = 1 -> "1" [] d = 2 -> "2" [] d = 3 -> "3"
              [] d = 4 -> "4" [] d = 5 -> "5" [] d = 6 -> "6" [] d = 7 -> "7"
              [] d = 8 -> "8" [] d = 9 -> "9"

RECURSIVE IntToStr(_)
IntToStr(n) == IF n < 10 THEN <<Digit(n)>>
               ELSE IntToStr(n \div 10) \o <<Digit(n % 10)>>

\* Concatenation of a sequence of sequences.
RECURSIVE Flatten(_)
Flatten(ss) == IF ss = <<>> THEN <<>> ELSE Head(ss) \o Flatten(Tail(ss))

\* The elements of a sequence.
Range(s) == {s[i] : i \in 1..Len(s)}

-----------------------------------------------------------------------------
(* Record Filter                                                           *)

\* A pattern without the closing anchor: r"^[C0-9|]+" matches any prefix.
str_match_cui_pattern_unanchored(s) ==
    Len(s) > 0 /\ s[1] \in {"C", "0", "1", "2", "3", "4", "5", "6", "7", "8", "9", "|"}

\* The invalid rows found with the unanchored pattern.
delete_invalid_object_cuis_unanchored(predication_data_frame) ==
    SelectSeq(predication_data_frame,
              LAMBDA r : str_match_cui_pattern_unanchored(r.OBJECT_CUI))

delete_invalid_object_cuis(predication_data_frame) ==
    SelectSeq(predication_data_frame,
              LAMBDA r : str_match_cui_pattern(r.OBJECT_CUI))

\* The zero-novelty flags computed from the subject column alone.
delete_zero_novelty_scores_subject_only(predication_data_frame) ==
    SelectSeq(predication_data_frame, LAMBDA r : ~(r.SUBJECT_NOVELTY = 0))

delete_zero_novelty_scores(predication_data_frame) ==
    SelectSeq(predication_data_frame,
              LAMBDA r : ~(r.SUBJECT_NOVELTY = 0 \/ r.OBJECT_NOVELTY = 0))

-----------------------------------------------------------------------------
(* Multi-Value Expander                                                    *)

\* The frame with the IS_SUBJECT_PIPED / IS_OBJECT_PIPED columns added.
add_piped_flags(predication_data_frame) ==
    [i \in 1..Len(predication_data_frame) |->
        predication_data_frame[i] @@
        [IS_SUBJECT_PIPED |-> str_contains_pipe(predication_data_frame[i].SUBJECT_CUI),
         IS_OBJECT_PIPED  |-> str_contains_pipe(predication_data_frame[i].OBJECT_CUI)]]

is_piped(r) == r.IS_SUBJECT_PIPED \/ r.IS_OBJECT_PIPED

\* The squeeze of the specification: a side holding a "C" and a "|" keeps its
\* first identifier and name only.
explode_row_squeezed(r) ==
    LET squeeze(cuis, names) ==
            IF (\E i \in 1..Len(cuis) : cuis[i] = "C") /\ str_contains_pipe(cuis)
            THEN <<<<Head(str_split(cuis))>>, <<Head(str_split(names))>>>>
            ELSE <<str_split(cuis), str_split(names)>>
        sub == squeeze(r.SUBJECT_CUI, r.SUBJECT_NAME)
        obj == squeeze(r.OBJECT_CUI, r.OBJECT_NAME)
        m   == Len(sub[1])
        n   == Len(obj[1])
    IN  [k \in 1..(m * n) |->
            LET j == ((k - 1) \div m) + 1
                i == ((k - 1) % m) + 1
            IN  [r EXCEPT !.SUBJECT_CUI = sub[1][i], !.SUBJECT_NAME = sub[2][i],
                          !.OBJECT_CUI = obj[1][j], !.OBJECT_NAME = obj[2][j]]]

\* DataFrame.explode on the (CUI, NAME) list pairs of one piped row: first the
\* object pair, then the subject pair, so the object token varies slowest.
explode_row(r) ==
    LET sc == str_split(r.SUBJECT_CUI)
        sn == str_split(r.SUBJECT_NAME)
        oc == str_split(r.OBJECT_CUI)
        on == str_split(r.OBJECT_NAME)
        m  == Len(sc)
        n  == Len(oc)
    IN  [k \in 1..(m * n) |->
            LET j == ((k - 1) \div m) + 1
                i == ((k - 1) % m) + 1
            IN  [r EXCEPT !.SUBJECT_CUI = sc[i], !.SUBJECT_NAME = sn[i],
                          !.OBJECT_CUI = oc[j], !.OBJECT_NAME = on[j]]]

\* The empty-value flags computed from the subject columns alone.
has_empty_value_subject_only(r) ==
    \/ r.SUBJECT_CUI = <<>>
    \/ r.SUBJECT_NAME = <<"N", "o", "n", "e">>

\* The rows dropped after the explode: an empty identifier or a "None" name.
has_empty_value(r) ==
    \/ r.SUBJECT_CUI = <<>>
    \/ r.SUBJECT_NAME = <<"N", "o", "n", "e">>
    \/ r.OBJECT_CUI = <<>>
    \/ r.OBJECT_NAME = <<"N", "o", "n", "e">>

\* explode_pipes raises instead of returning:
\*   .loc[True] on the IS_PIPED index is a KeyError when no row is piped and
\*   a Series (no .str / .assign for its cells) when exactly one row is;
\*   a multi-column explode raises ValueError when the identifier list and
\*   the name list of a row differ in length.
explode_pipes_exception(predication_data_frame) ==
    LET flagged == add_piped_flags(predication_data_frame)
        piped   == SelectSeq(flagged, is_piped)
    IN  IF Len(piped) = 0 THEN "KeyError"
        ELSE IF Len(piped) = 1 THEN "AttributeError"
        ELSE IF \E i \in 1..Len(piped) :
                  \/ Len(str_split(piped[i].OBJECT_CUI)) # Len(str_split(piped[i].OBJECT_NAME))
                  \/ Len(str_split(piped[i].SUBJECT_CUI)) # Len(str_split(piped[i].SUBJECT_NAME))
        THEN "ValueError"
        ELSE "none"

explode_pipes_raises(predication_data_frame) ==
    explode_pipes_exception(predication_data_frame) # "none"

explode_pipes(predication_data_frame) ==
    LET flagged   == add_piped_flags(predication_data_frame)
        piped     == SelectSeq(flagged, is_piped)
        unpiped   == SelectSeq(flagged, LAMBDA r : ~is_piped(r))
        exploded  == Flatten([i \in 1..Len(piped) |-> explode_row(piped[i])])
    IN  unpiped \o SelectSeq(exploded, LAMBDA r : ~has_empty_value(r))

-----------------------------------------------------------------------------
(* Data frame helpers                                                      *)

\* The elements of a set of integers in increasing order.
RECURSIVE SortedIdx(_)
SortedIdx(S) ==
    IF S = {} THEN <<>>
    ELSE LET mn == CHOOSE x \in S : \A y \in S : x <= y
         IN  <<mn>> \o SortedIdx(S \ {mn})

\* The rows of df at the positions in S, in frame order.
Take(df, S) == LET ix == SortedIdx(S) IN [k \in 1..Len(ix) |-> df[ix[k]]]

\* DataFrame.drop(columns=cols) on one row.
drop_columns(r, cols) == [f \in (DOMAIN r) \ cols |-> r[f]]

\* DataFrame.drop_duplicates(subset=["CUI", "SEMTYPE"], keep="first")
drop_duplicates(cui_info) ==
    Take(cui_info,
         {i \in 1..Len(cui_info) :
             \A j \in 1..(i - 1) :
                 ~(cui_info[j].CUI = cui_info[i].CUI /\ cui_info[j].SEMTYPE = cui_info[i].SEMTYPE)})

-----------------------------------------------------------------------------
(* Retired CUIs                                                            *)

\* Deletion only of the CUIs the file gives no replacement for.
get_retired_cuis_for_deletion_without_replacement(mrcui_data_frame) ==
    {mrcui_data_frame[i].CUI1 :
        i \in {k \in 1..Len(mrcui_data_frame) :
                  mrcui_data_frame[k].REL = "DEL" /\ mrcui_data_frame[k].CUI2 = NaN}}

get_retired_cuis_for_deletion(mrcui_data_frame) ==
    {mrcui_data_frame[i].CUI1 :
        i \in {k \in 1..Len(mrcui_data_frame) : mrcui_data_frame[k].REL = "DEL"}}

get_retirement_mapping_data_frame(mrcui_data_frame) ==
    LET kept == SelectSeq(mrcui_data_frame, LAMBDA r : r.CUI2 # NaN)
    IN  [i \in 1..Len(kept) |-> [CUI1 |-> kept[i].CUI1, CUI2 |-> kept[i].CUI2]]

delete_retired_cuis(predication_data_frame, retired_cuis) ==
    SelectSeq(predication_data_frame,
              LAMBDA r : ~(r.OBJECT_CUI \in retired_cuis \/ r.SUBJECT_CUI \in retired_cuis))

\* add_prefix_columns with the object's prefix taken from the subject's CUI.
add_prefix_columns_subject_only(predication_data_frame) ==
    [i \in 1..Len(predication_data_frame) |->
        predication_data_frame[i] @@
        [SUBJECT_PREFIX |-> IF str_startswith_C(predication_data_frame[i].SUBJECT_CUI)
                            THEN "umls" ELSE "ncbigene",
         OBJECT_PREFIX  |-> IF str_startswith_C(predication_data_frame[i].SUBJECT_CUI)
                            THEN "umls" ELSE "ncbigene"]]

add_prefix_columns(predication_data_frame) ==
    [i \in 1..Len(predication_data_frame) |->
        predication_data_frame[i] @@
        [SUBJECT_PREFIX |-> IF str_startswith_C(predication_data_frame[i].SUBJECT_CUI)
                            THEN "umls" ELSE "ncbigene",
         OBJECT_PREFIX  |-> IF str_startswith_C(predication_data_frame[i].OBJECT_CUI)
                            THEN "umls" ELSE "ncbigene"]]

get_cui_name_and_semtype_from_semmed(predication_data_frame) ==
    LET subs == SelectSeq(predication_data_frame, LAMBDA r : r.SUBJECT_PREFIX = "umls")
        objs == SelectSeq(predication_data_frame, LAMBDA r : r.OBJECT_PREFIX = "umls")
        sub_cui_semtype ==
            drop_duplicates([i \in 1..Len(subs) |->
                [CUI |-> subs[i].SUBJECT_CUI, CONCEPT_NAME |-> subs[i].SUBJECT_NAME,
                 SEMTYPE |-> subs[i].SUBJECT_SEMTYPE]])
        obj_cui_semtype ==
            drop_duplicates([i \in 1..Len(objs) |->
                [CUI |-> objs[i].OBJECT_CUI, CONCEPT_NAME |-> objs[i].OBJECT_NAME,
                 SEMTYPE |-> objs[i].OBJECT_SEMTYPE]])
    IN  drop_duplicates(sub_cui_semtype \o obj_cui_semtype)

\* The concatenation with the UMLS rows ahead of the SemMedDB rows.
preferred_cui_info_umls_first(new_cuis, semmed_cui_name_semtype_data_frame, umls_cui_name_semtype_data_frame) ==
    LET semmed_cui_info == SelectSeq(semmed_cui_name_semtype_data_frame,
                                     LAMBDA r : r.CUI \in new_cuis)
        umls_cui_info   == SelectSeq(umls_cui_name_semtype_data_frame,
                                     LAMBDA r : r.CUI \in new_cuis)
    IN  drop_duplicates(umls_cui_info \o semmed_cui_info)

\* The concatenation of the SemMedDB rows and the UMLS rows, de-duplicated.
preferred_cui_info(new_cuis, semmed_cui_name_semtype_data_frame, umls_cui_name_semtype_data_frame) ==
    LET semmed_cui_info == SelectSeq(semmed_cui_name_semtype_data_frame,
                                     LAMBDA r : r.CUI \in new_cuis)
        umls_cui_info   == SelectSeq(umls_cui_name_semtype_data_frame,
                                     LAMBDA r : r.CUI \in new_cuis)
    IN  drop_duplicates(semmed_cui_info \o umls_cui_info)

\* merge(how="left", left_on="CUI2", right_on="CUI"): a mapping row per matching
\* name row, or one row with missing name and semantic type when none matches.
add_cui_name_and_semtype_to_retirement_mapping(retirement_mapping_data_frame, semmed_cui_name_semtype_data_frame, umls_cui_name_semtype_data_frame) ==
    LET new_cuis == {retirement_mapping_data_frame[i].CUI2 :
                        i \in 1..Len(retirement_mapping_data_frame)}
        info == preferred_cui_info(new_cuis, semmed_cui_name_semtype_data_frame,
                                   umls_cui_name_semtype_data_frame)
        joined(m) ==
            LET hits == SelectSeq(info, LAMBDA p : p.CUI = m.CUI2)
            IN  IF hits = <<>>
                THEN <<[CUI1 |-> m.CUI1, CUI2 |-> m.CUI2,
                        CUI2_NAME |-> NaN, CUI2_SEMTYPE |-> NaN]>>
                ELSE [k \in 1..Len(hits) |->
                        [CUI1 |-> m.CUI1, CUI2 |-> m.CUI2,
                         CUI2_NAME |-> hits[k].CONCEPT_NAME,
                         CUI2_SEMTYPE |-> hits[k].SEMTYPE]]
    IN  Flatten([i \in 1..Len(retirement_mapping_data_frame) |->
                    joined(retirement_mapping_data_frame[i])])

\* Step 2 with the overwrite done only where the merge found a match.
merge_subject_keep_unmatched(r, retirement_mapping_data_frame) ==
    LET hits == SelectSeq(retirement_mapping_data_frame,
                          LAMBDA m : m.CUI1 = r.SUBJECT_CUI /\ m.CUI2_SEMTYPE = r.SUBJECT_SEMTYPE)
    IN  IF hits = <<>> THEN <<r>>
        ELSE [k \in 1..Len(hits) |->
                [r EXCEPT !.SUBJECT_CUI = hits[k].CUI2, !.SUBJECT_NAME = hits[k].CUI2_NAME,
                          !.SUBJECT_SEMTYPE = hits[k].CUI2_SEMTYPE]]

\* Step 2 with the merge made on the CUI alone, whatever the semantic type.
merge_subject_on_cui_alone(r, retirement_mapping_data_frame) ==
    LET hits == SelectSeq(retirement_mapping_data_frame,
                          LAMBDA m : m.CUI1 = r.SUBJECT_CUI)
        over(cui2, name, semtype) ==
            IF r.IS_SUBJECT_RETIRED
            THEN [r EXCEPT !.SUBJECT_CUI = cui2, !.SUBJECT_NAME = name,
                           !.SUBJECT_SEMTYPE = semtype]
            ELSE r
    IN  IF hits = <<>> THEN <<over(NaN, NaN, NaN)>>
        ELSE [k \in 1..Len(hits) |->
                over(hits[k].CUI2, hits[k].CUI2_NAME, hits[k].CUI2_SEMTYPE)]

\* Step 2 of map_retired_cuis on one row: the left merge on (SUBJECT_CUI,
\* SUBJECT_SEMTYPE) = (CUI1, CUI2_SEMTYPE) and the np.where overwrites.
merge_subject(r, retirement_mapping_data_frame) ==
    LET hits == SelectSeq(retirement_mapping_data_frame,
                          LAMBDA m : m.CUI1 = r.SUBJECT_CUI /\ m.CUI2_SEMTYPE = r.SUBJECT_SEMTYPE)
        over(cui2, name, semtype) ==
            IF r.IS_SUBJECT_RETIRED
            THEN [r EXCEPT !.SUBJECT_CUI = cui2, !.SUBJECT_NAME = name,
                           !.SUBJECT_SEMTYPE = semtype]
            ELSE r
    IN  IF hits = <<>> THEN <<over(NaN, NaN, NaN)>>
        ELSE [k \in 1..Len(hits) |->
                over(hits[k].CUI2, hits[k].CUI2_NAME, hits[k].CUI2_SEMTYPE)]

\* Step 3 of map_retired_cuis on one row, the same on the object side.
merge_object(r, retirement_mapping_data_frame) ==
    LET hits == SelectSeq(retirement_mapping_data_frame,
                          LAMBDA m : m.CUI1 = r.OBJECT_CUI /\ m.CUI2_SEMTYPE = r.OBJECT_SEMTYPE)
        over(cui2, name, semtype) ==
            IF r.IS_OBJECT_RETIRED
            THEN [r EXCEPT !.OBJECT_CUI = cui2, !.OBJECT_NAME = name,
                           !.OBJECT_SEMTYPE = semtype]
            ELSE r
    IN  IF hits = <<>> THEN <<over(NaN, NaN, NaN)>>
        ELSE [k \in 1..Len(hits) |->
                over(hits[k].CUI2, hits[k].CUI2_NAME, hits[k].CUI2_SEMTYPE)]

\* No dropna after step 2.
dropna_subject_skipped(df) == df

\* dropna(how="any", subset=[SUBJECT_CUI, SUBJECT_NAME, SUBJECT_SEMTYPE])
dropna_subject(df) ==
    SelectSeq(df, LAMBDA r : r.SUBJECT_CUI # NaN /\ r.SUBJECT_NAME # NaN
                             /\ r.SUBJECT_SEMTYPE # NaN)

\* No dropna after step 3.
dropna_object_skipped(df) == df

\* dropna(how="any", subset=[OBJECT_CUI, OBJECT_NAME, OBJECT_SEMTYPE])
dropna_object(df) ==
    SelectSeq(df, LAMBDA r : r.OBJECT_CUI # NaN /\ r.OBJECT_NAME # NaN
                             /\ r.OBJECT_SEMTYPE # NaN)

map_retired_cuis(predication_data_frame, retirement_mapping_data_frame) ==
    LET retired_cuis == {retirement_mapping_data_frame[i].CUI1 :
                            i \in 1..Len(retirement_mapping_data_frame)}
        flagged == [i \in 1..Len(predication_data_frame) |->
                       predication_data_frame[i] @@
                       [IS_SUBJECT_RETIRED |-> predication_data_frame[i].SUBJECT_CUI \in retired_cuis,
                        IS_OBJECT_RETIRED  |-> predication_data_frame[i].OBJECT_CUI \in retired_cuis]]
        is_retired(r) == r.IS_SUBJECT_RETIRED \/ r.IS_OBJECT_RETIRED
        retired_predications == SelectSeq(flagged, is_retired)
        step2 == dropna_subject(
                     Flatten([i \in 1..Len(retired_predications) |->
                                 merge_subject(retired_predications[i],
                                               retirement_mapping_data_frame)]))
        step3 == dropna_object(
                     Flatten([i \in 1..Len(step2) |->
                                 merge_object(step2[i], retirement_mapping_data_frame)]))
        flags == {"IS_SUBJECT_RETIRED", "IS_OBJECT_RETIRED"}
        kept  == SelectSeq(flagged, LAMBDA r : ~is_retired(r))
    IN  [i \in 1..Len(kept) |-> drop_columns(kept[i], flags)]
        \o [i \in 1..Len(step3) |-> drop_columns(step3[i], flags)]

-----------------------------------------------------------------------------
(* Node Normalizer client                                                  *)

\* Python's None (a JSON null, a dict.get default).
None == <<"None">>

\* f"{cui_prefix}{cui}": the namespace tag is one symbol in front of the text.
umls_curie(cui) == <<"UMLS:">> \o cui

\* The first equivalent identifier in the NCBIGene namespace, prefix trimmed.
first_ncbigene_id(curie_result) ==
    LET ids  == curie_result.equivalent_identifiers
        hits == {i \in 1..Len(ids) : Head(ids[i]) = "NCBIGene:"}
    IN  Tail(ids[CHOOSE i \in hits : \A j \in hits : i <= j])

has_ncbigene_id(curie_result) ==
    /\ ~curie_result.is_null
    /\ \E i \in 1..Len(curie_result.equivalent_identifiers) :
          Head(curie_result.equivalent_identifiers[i]) = "NCBIGene:"

\* _query that takes the first equivalent identifier whatever its namespace.
query_any_namespace(cui_chunk, json_resp) ==
    [cui \in {c \in cui_chunk : ~json_resp[umls_curie(c)].is_null} |->
        Tail(json_resp[umls_curie(cui)].equivalent_identifiers[1])]

\* _query on one chunk, given the JSON body the service answered with.
query(cui_chunk, json_resp) ==
    [cui \in {c \in cui_chunk : has_ncbigene_id(json_resp[umls_curie(c)])} |->
        first_ncbigene_id(json_resp[umls_curie(cui)])]

\* The merge of the per-chunk dictionaries: later chunks overwrite earlier ones.
merge_maps(merged_map, cg_map) ==
    [cui \in (DOMAIN merged_map) \cup (DOMAIN cg_map) |->
        IF cui \in DOMAIN cg_map THEN cg_map[cui] ELSE merged_map[cui]]

-----------------------------------------------------------------------------
(* Equivalence Collapser                                                   *)

\* The candidates taken from the concept identifiers of every row, piped or
\* not.
candidate_sub_cuis_of_every_row(predication_data_frame) ==
    {predication_data_frame[i].SUBJECT_CUI :
        i \in {k \in 1..Len(predication_data_frame) :
                  predication_data_frame[k].SUBJECT_PREFIX = "umls"}}

candidate_sub_cuis(predication_data_frame) ==
    {predication_data_frame[i].SUBJECT_CUI :
        i \in {k \in 1..Len(predication_data_frame) :
                  /\ predication_data_frame[k].IS_SUBJECT_PIPED
                  /\ predication_data_frame[k].SUBJECT_PREFIX = "umls"}}

candidate_obj_cuis(predication_data_frame) ==
    {predication_data_frame[i].OBJECT_CUI :
        i \in {k \in 1..Len(predication_data_frame) :
                  /\ predication_data_frame[k].IS_OBJECT_PIPED
                  /\ predication_data_frame[k].OBJECT_PREFIX = "umls"}}

\* {cui: gene_id for cui, gene_id in cui_gene_id_map.items() if cui in cuis}
restrict_map(cui_gene_id_map, cuis) ==
    [cui \in (DOMAIN cui_gene_id_map) \cap cuis |-> cui_gene_id_map[cui]]

\* dict(zip(PREDICATION_ID, SUBJECT_CUI)) over the source rows: the last row of
\* a predication id wins.
pid_sub_cui_map(predication_data_frame, sub_cui_gid_map) ==
    LET src == {i \in 1..Len(predication_data_frame) :
                   /\ predication_data_frame[i].IS_SUBJECT_PIPED
                   /\ predication_data_frame[i].SUBJECT_CUI \in DOMAIN sub_cui_gid_map}
        last(pid) == CHOOSE i \in src :
                        /\ predication_data_frame[i].PREDICATION_ID = pid
                        /\ \A j \in src : predication_data_frame[j].PREDICATION_ID = pid => j <= i
    IN  [pid \in {predication_data_frame[i].PREDICATION_ID : i \in src} |->
            predication_data_frame[last(pid)].SUBJECT_CUI]

pid_obj_cui_map(predication_data_frame, obj_cui_gid_map) ==
    LET src == {i \in 1..Len(predication_data_frame) :
                   /\ predication_data_frame[i].IS_OBJECT_PIPED
                   /\ predication_data_frame[i].OBJECT_CUI \in DOMAIN obj_cui_gid_map}
        last(pid) == CHOOSE i \in src :
                        /\ predication_data_frame[i].PREDICATION_ID = pid
                        /\ \A j \in src : predication_data_frame[j].PREDICATION_ID = pid => j <= i
    IN  [pid \in {predication_data_frame[i].PREDICATION_ID : i \in src} |->
            predication_data_frame[last(pid)].OBJECT_CUI]

establish_pred_id_to_gene_id_map(pid_cui_map, cui_gid_map) ==
    [pid \in {p \in DOMAIN pid_cui_map : pid_cui_map[p] \in DOMAIN cui_gid_map} |->
        cui_gid_map[pid_cui_map[pid]]]

\* The inner merges made on PREDICATION_ID alone.
get_row_index_merged_on_predication_id(predication_data_frame, pred_id_sub_gene_id_map, pred_id_obj_gene_id_map) ==
    {i \in 1..Len(predication_data_frame) :
        \/ /\ predication_data_frame[i].IS_SUBJECT_PIPED
           /\ predication_data_frame[i].PREDICATION_ID \in DOMAIN pred_id_sub_gene_id_map
        \/ /\ predication_data_frame[i].IS_OBJECT_PIPED
           /\ predication_data_frame[i].PREDICATION_ID \in DOMAIN pred_id_obj_gene_id_map}

\* The inner merges: the piped rows whose (PREDICATION_ID, CUI) pair is a
\* (predication id, gene id) pair of the map.
get_row_index_of_equivalent_ncbigene_ids(predication_data_frame, pred_id_sub_gene_id_map, pred_id_obj_gene_id_map) ==
    LET dest_sub_gid_index ==
            {i \in 1..Len(predication_data_frame) :
                /\ predication_data_frame[i].IS_SUBJECT_PIPED
                /\ predication_data_frame[i].PREDICATION_ID \in DOMAIN pred_id_sub_gene_id_map
                /\ pred_id_sub_gene_id_map[predication_data_frame[i].PREDICATION_ID]
                       = predication_data_frame[i].SUBJECT_CUI}
        dest_obj_gid_index ==
            {i \in 1..Len(predication_data_frame) :
                /\ predication_data_frame[i].IS_OBJECT_PIPED
                /\ predication_data_frame[i].PREDICATION_ID \in DOMAIN pred_id_obj_gene_id_map
                /\ pred_id_obj_gene_id_map[predication_data_frame[i].PREDICATION_ID]
                       = predication_data_frame[i].OBJECT_CUI}
    IN  dest_sub_gid_index \cup dest_obj_gid_index

\* The index of the source rows, those with the concept identifiers, in place
\* of the rows with their gene ids.
dest_equivalent_gid_index_of_sources(predication_data_frame, cui_gene_id_map) ==
    LET sub_cui_gid_map == restrict_map(cui_gene_id_map, candidate_sub_cuis(predication_data_frame))
        obj_cui_gid_map == restrict_map(cui_gene_id_map, candidate_obj_cuis(predication_data_frame))
    IN  {i \in 1..Len(predication_data_frame) :
            \/ /\ predication_data_frame[i].IS_SUBJECT_PIPED
               /\ predication_data_frame[i].SUBJECT_CUI \in DOMAIN sub_cui_gid_map
            \/ /\ predication_data_frame[i].IS_OBJECT_PIPED
               /\ predication_data_frame[i].OBJECT_CUI \in DOMAIN obj_cui_gid_map}

\* The index delete_equivalent_ncbigene_ids drops, given the CUI -> gene id map
\* it loaded from the cache or got from the Node Normalizer.
dest_equivalent_gid_index(predication_data_frame, cui_gene_id_map) ==
    LET sub_cui_gid_map == restrict_map(cui_gene_id_map, candidate_sub_cuis(predication_data_frame))
        obj_cui_gid_map == restrict_map(cui_gene_id_map, candidate_obj_cuis(predication_data_frame))
        pid_sub_gid_map == establish_pred_id_to_gene_id_map(
                               pid_sub_cui_map(predication_data_frame, sub_cui_gid_map),
                               sub_cui_gid_map)
        pid_obj_gid_map == establish_pred_id_to_gene_id_map(
                               pid_obj_cui_map(predication_data_frame, obj_cui_gid_map),
                               obj_cui_gid_map)
    IN  get_row_index_of_equivalent_ncbigene_ids(predication_data_frame,
                                                 pid_sub_gid_map, pid_obj_gid_map)

\* The same drop with the source rows, those with the concept identifiers,
\* dropped along with the rows of their gene ids.
delete_equivalent_ncbigene_ids_and_sources(predication_data_frame, cui_gene_id_map) ==
    LET dest == dest_equivalent_gid_index(predication_data_frame, cui_gene_id_map)
                    \cup dest_equivalent_gid_index_of_sources(predication_data_frame, cui_gene_id_map)
        left == Take(predication_data_frame, (1..Len(predication_data_frame)) \ dest)
    IN  [i \in 1..Len(left) |->
            drop_columns(left[i], {"IS_SUBJECT_PIPED", "IS_OBJECT_PIPED"})]

delete_equivalent_ncbigene_ids(predication_data_frame, cui_gene_id_map) ==
    LET dest == dest_equivalent_gid_index(predication_data_frame, cui_gene_id_map)
        left == Take(predication_data_frame, (1..Len(predication_data_frame)) \ dest)
    IN  [i \in 1..Len(left) |->
            drop_columns(left[i], {"IS_SUBJECT_PIPED", "IS_OBJECT_PIPED"})]

-----------------------------------------------------------------------------
(* Document ids                                                            *)

\* The same sort with every key ascending.
document_id_order_ascending(a, b) ==
    \/ a.PREDICATION_ID < b.PREDICATION_ID
    \/ /\ a.PREDICATION_ID = b.PREDICATION_ID
       /\ \/ StrLess(a.SUBJECT_CUI, b.SUBJECT_CUI)
          \/ /\ a.SUBJECT_CUI = b.SUBJECT_CUI
             /\ StrLess(a.OBJECT_CUI, b.OBJECT_CUI)

\* sort_values(by=[PREDICATION_ID, SUBJECT_CUI, OBJECT_CUI], ascending=[True, False, False])
document_id_order(a, b) ==
    \/ a.PREDICATION_ID < b.PREDICATION_ID
    \/ /\ a.PREDICATION_ID = b.PREDICATION_ID
       /\ \/ StrLess(b.SUBJECT_CUI, a.SUBJECT_CUI)
          \/ /\ a.SUBJECT_CUI = b.SUBJECT_CUI
             /\ StrLess(b.OBJECT_CUI, a.OBJECT_CUI)

\* The sort of add_document_id_column; rows equal on the three keys keep their
\* frame order.
sort_values(df) ==
    LET rank(i) == Cardinality({j \in 1..Len(df) :
                        \/ document_id_order(df[j], df[i])
                        \/ (~document_id_order(df[i], df[j]) /\ j < i)}) + 1
    IN  [k \in 1..Len(df) |-> df[CHOOSE i \in 1..Len(df) : rank(i) = k]]

\* add_document_id_column that gives every row the id with the number.
add_document_id_column_always_numbered(predication_data_frame) ==
    LET sorted == sort_values(predication_data_frame)
        groupwise_pred_num(k) ==
            Cardinality({j \in 1..k : sorted[j].PREDICATION_ID = sorted[k].PREDICATION_ID})
    IN  [k \in 1..Len(sorted) |->
            sorted[k] @@ [_ID |-> IntToStr(sorted[k].PREDICATION_ID) \o <<"-">>
                                  \o IntToStr(groupwise_pred_num(k))]]

add_document_id_column(predication_data_frame) ==
    LET sorted == sort_values(predication_data_frame)
        groupwise_pred_num(k) ==
            Cardinality({j \in 1..k : sorted[j].PREDICATION_ID = sorted[k].PREDICATION_ID})
        group_size(k) ==
            Cardinality({j \in 1..Len(sorted) :
                            sorted[j].PREDICATION_ID = sorted[k].PREDICATION_ID})
        primary_id(k)   == IntToStr(sorted[k].PREDICATION_ID)
        secondary_id(k) == IntToStr(sorted[k].PREDICATION_ID) \o <<"-">>
                           \o IntToStr(groupwise_pred_num(k))
    IN  [k \in 1..Len(sorted) |->
            sorted[k] @@ [_ID |-> IF group_size(k) = 1 THEN primary_id(k)
                                  ELSE secondary_id(k)]]

-----------------------------------------------------------------------------
(* Document Grouper                                                        *)

\* set_index(INDEX_COLUMNS).sort_index(): ascending on the index triple.
index_order(a, b) ==
    \/ StrLess(a.SUBJECT_CUI, b.SUBJECT_CUI)
    \/ /\ a.SUBJECT_CUI = b.SUBJECT_CUI
       /\ \/ StrLess(a.PREDICATE, b.PREDICATE)
          \/ /\ a.PREDICATE = b.PREDICATE
             /\ StrLess(a.OBJECT_CUI, b.OBJECT_CUI)

sort_index(df) ==
    LET rank(i) == Cardinality({j \in 1..Len(df) :
                        \/ index_order(df[j], df[i])
                        \/ (~index_order(df[i], df[j]) /\ j < i)}) + 1
    IN  [k \in 1..Len(df) |-> df[CHOOSE i \in 1..Len(df) : rank(i) = k]]

set_index_and_sort(predication_data_frame) ==
    sort_index(predication_data_frame)

\* The index tuple of a row.
index_of(r) == <<r.SUBJECT_CUI, r.PREDICATE, r.OBJECT_CUI>>

\* Series.unique() that keeps the repeated values.
unique_keep_duplicates(series) == series

\* Series.unique(): the distinct values in order of first appearance.
unique(series) ==
    Take(series, {i \in 1..Len(series) : \A j \in 1..(i - 1) : series[j] # series[i]})

squeeze_list(lst) == IF Len(lst) = 1 THEN lst[1] ELSE lst

\* squeeze_series that collapses the series to its first element.
squeeze_series_to_first(series) == series[1]

squeeze_series(series) == IF Len(series) = 1 THEN series[1] ELSE series

\* dict.get(key, None)
dict_get(map, key) == IF key \in DOMAIN map THEN map[key] ELSE None

construct_predication(predication_id, pmid, sentence_id, sentence) ==
    [predication_id |-> predication_id, pmid |-> pmid,
     sentence_id |-> sentence_id, sentence |-> sentence]

construct_entity(cui, name, semtype, semtype_name, novelty, cui_prefix) ==
    (cui_prefix :> cui) @@
    [name |-> name, semantic_type_abbreviation |-> semtype,
     semantic_type_name |-> semtype_name, novelty |-> novelty]

\* "not x" for the values semantic_type_name can take: None, an empty string
\* or an empty list are falsy, everything else (a list of Nones too) is truthy.
falsy(x) == x = None \/ x = <<>>

\* del entity["semantic_type_name"] when it is falsy
del_semtype_name(entity) ==
    IF falsy(entity.semantic_type_name)
    THEN drop_columns(entity, {"semantic_type_name"})
    ELSE entity

\* "".join(index): the index tuple joined with no separator.
join_index_without_separator(index) == index[1] \o index[2] \o index[3]

\* "-".join(index)
join_index(index) == index[1] \o <<"-">> \o index[2] \o <<"-">> \o index[3]

\* value is the sequence of the rows of the group (one row when value_as_df is
\* false).
construct_document(index, value, value_as_df, semantic_type_map, sentence_map) ==
    LET column(c) == [i \in 1..Len(value) |-> value[i][c]]
        subject_semtype_unique == unique(column("SUBJECT_SEMTYPE"))
        subject_semtype_name_unique ==
            [i \in 1..Len(subject_semtype_unique) |->
                dict_get(semantic_type_map, subject_semtype_unique[i])]
        object_semtype_unique == unique(column("OBJECT_SEMTYPE"))
        object_semtype_name_unique ==
            [i \in 1..Len(object_semtype_unique) |->
                dict_get(semantic_type_map, object_semtype_unique[i])]
        predication_list ==
            [i \in 1..Len(value) |->
                construct_predication(value[i].PREDICATION_ID, value[i].PMID,
                                      value[i].SENTENCE_ID,
                                      dict_get(sentence_map, value[i].SENTENCE_ID))]
        subject_dict ==
            IF value_as_df
            THEN construct_entity(index[1],
                                  squeeze_series(unique(column("SUBJECT_NAME"))),
                                  squeeze_series(subject_semtype_unique),
                                  squeeze_list(subject_semtype_name_unique),
                                  value[1].SUBJECT_NOVELTY, value[1].SUBJECT_PREFIX)
            ELSE construct_entity(index[1], value[1].SUBJECT_NAME,
                                  value[1].SUBJECT_SEMTYPE,
                                  dict_get(semantic_type_map, value[1].SUBJECT_SEMTYPE),
                                  value[1].SUBJECT_NOVELTY, value[1].SUBJECT_PREFIX)
        object_dict ==
            IF value_as_df
            THEN construct_entity(index[3],
                                  squeeze_series(unique(column("OBJECT_NAME"))),
                                  squeeze_series(object_semtype_unique),
                                  squeeze_list(object_semtype_name_unique),
                                  value[1].OBJECT_NOVELTY, value[1].OBJECT_PREFIX)
            ELSE construct_entity(index[3], value[1].OBJECT_NAME,
                                  value[1].OBJECT_SEMTYPE,
                                  dict_get(semantic_type_map, value[1].OBJECT_SEMTYPE),
                                  value[1].OBJECT_NOVELTY, value[1].OBJECT_PREFIX)
        pmid_count == IF value_as_df THEN Len(unique(column("PMID"))) ELSE 1
        predication_count == IF value_as_df THEN Len(predication_list) ELSE 1
    IN  [_id |-> join_index(index),
         predicate |-> index[2],
         predication |-> predication_list,
         pmid_count |-> pmid_count,
         predication_count |-> predication_count,
         subject |-> del_semtype_name(subject_dict),
         object |-> del_semtype_name(object_dict)]

\* The rows .loc[index] selects.
sub_df(predication_data_frame, index) ==
    SelectSeq(predication_data_frame, LAMBDA r : index_of(r) = index)

\* generate_documents raises on its first index when no index tuple repeats:
\* .loc[index] on a unique MultiIndex is a Series, its shape[0] is the number
\* of columns, so value_as_df is true and value["SUBJECT_SEMTYPE"].unique()
\* is asked of a str.
generate_documents_raises(predication_data_frame) ==
    /\ Len(predication_data_frame) > 0
    /\ \A i, j \in 1..Len(predication_data_frame) :
          i # j => index_of(predication_data_frame[i]) # index_of(predication_data_frame[j])

\* The document with the _ID column of the first row of its group as its id.
document_id_from_row(predication_data_frame, index, semtype_name_map, sentence_map) ==
    LET value == sub_df(predication_data_frame, index)
    IN  [construct_document(index, value, Len(value) # 1, semtype_name_map, sentence_map)
            EXCEPT !._id = value[1]._ID]

\* The document with the _ID column as the id of a one-row group.
document_row_id_when_single(predication_data_frame, index, semtype_name_map, sentence_map) ==
    LET value == sub_df(predication_data_frame, index)
        doc == construct_document(index, value, Len(value) # 1, semtype_name_map, sentence_map)
    IN  IF Len(value) = 1 THEN [doc EXCEPT !._id = value[1]._ID] ELSE doc

\* The document generate_documents yields for one index tuple.
document(predication_data_frame, index, semtype_name_map, sentence_map) ==
    LET value == sub_df(predication_data_frame, index)
    IN  construct_document(index, value, Len(value) # 1, semtype_name_map, sentence_map)

-----------------------------------------------------------------------------
(* The run: load_data calling construct_semmed_predication_data_frame      *)

VARIABLES
    semmed_predication_file,   \* the rows of the PREDICATION csv
    mrcui_file,                \* the rows of MRCUI.RRF: CUI1, REL, CUI2
    umls_cui_name_semtype_file,\* the rows of the UMLS name/semtype tsv
    node_norm_cache,           \* the Node Normalizer cache file: exists, map
    semtype_name_map,          \* abbreviation -> full name
    semmed_sentence_map,       \* sentence id -> sentence
    pc,                        \* the last step of the run that returned
    exception,                 \* the exception that ended the run, or "none"
    pred_df,                   \* the predication data frame
    retirement_mapping_df,     \* CUI1, CUI2, CUI2_NAME, CUI2_SEMTYPE
    requests_sent,             \* the requests answered so far: chunk, status, and
                               \* the CUIs answered without an NCBIGene id
    outstanding,               \* the chunks posted and not yet answered
    cui_gene_id_map,           \* the merged answers of the posted chunks
    yielded                    \* the index tuples whose document was yielded

vars == <<semmed_predication_file, mrcui_file, umls_cui_name_semtype_file,
          node_norm_cache, semtype_name_map, semmed_sentence_map, pc, exception,
          pred_df, retirement_mapping_df, requests_sent, outstanding,
          cui_gene_id_map, yielded>>

inputs == <<semmed_predication_file, mrcui_file, umls_cui_name_semtype_file,
            node_norm_cache, semtype_name_map, semmed_sentence_map>>

\* Rows per PREDICATION file.
MaxRows == 3

\* chunk_size of the Node Normalizer requests (1000 in the source, scaled down
\* so that a run posts more than one chunk).
chunk_size == 2

\* A dictionary with no key.
EmptyMap == [cui \in {} |-> <<>>]

\* The cache file is missing / holds the pickled map.
NoCache == [exists |-> FALSE, map |-> EmptyMap]

CacheOf(map) == [exists |-> TRUE, map |-> map]

\* A PREDICATION file: the auto-generated keys PREDICATION_ID and SENTENCE_ID
\* number the rows.
PredicationFile(rows) ==
    [i \in 1..Len(rows) |-> rows[i] @@ [PREDICATION_ID |-> i, SENTENCE_ID |-> i]]

PredicationFiles(templates) ==
    {PredicationFile(rows) : rows \in UNION {[1..n -> templates] : n \in 0..MaxRows}}

SemmedRow(pmid, predicate, scui, sname, ssemtype, snovelty, ocui, oname, osemtype, onovelty) ==
    [PMID |-> pmid, PREDICATE |-> predicate,
     SUBJECT_CUI |-> scui, SUBJECT_NAME |-> sname,
     SUBJECT_SEMTYPE |-> ssemtype, SUBJECT_NOVELTY |-> snovelty,
     OBJECT_CUI |-> ocui, OBJECT_NAME |-> oname,
     OBJECT_SEMTYPE |-> osemtype, OBJECT_NOVELTY |-> onovelty]

MrcuiRow(cui1, rel, cui2) == [CUI1 |-> cui1, REL |-> rel, CUI2 |-> cui2]

UmlsRow(cui, name, semtype) == [CUI |-> cui, CONCEPT_NAME |-> name, SEMTYPE |-> semtype]

\* What the Node Normalizer may answer for one curie: null, no gene among the
\* equivalent identifiers, or one or two genes.
CurieResults ==
    {[is_null |-> TRUE, equivalent_identifiers |-> <<>>],
     [is_null |-> FALSE, equivalent_identifiers |-> <<<<"MESH:", "9">>>>],
     [is_null |-> FALSE,
      equivalent_identifiers |-> <<<<"MESH:", "9">>, <<"NCBIGene:", "9">>>>],
     [is_null |-> FALSE,
      equivalent_identifiers |-> <<<<"NCBIGene:", "8">>, <<"NCBIGene:", "9">>>>]}

InitWith(templates, mrcui_files, umls_files, caches, semtype_maps) ==
    /\ semmed_predication_file \in PredicationFiles(templates)
    /\ mrcui_file \in mrcui_files
    /\ umls_cui_name_semtype_file \in umls_files
    /\ node_norm_cache \in caches
    /\ semtype_name_map \in semtype_maps
    /\ semmed_sentence_map = (1 :> <<"s", "1">>)
    /\ pc = "read_semmed_predication_data_frame"
    /\ exception = "none"
    /\ pred_df = semmed_predication_file
    /\ retirement_mapping_df = <<>>
    /\ requests_sent = <<>>
    /\ outstanding = {}
    /\ cui_gene_id_map = EmptyMap
    /\ yielded = {}

Raise(e) ==
    /\ pc' = "raised"
    /\ exception' = e
    /\ UNCHANGED <<inputs, pred_df, retirement_mapping_df, requests_sent, outstanding,
                   cui_gene_id_map, yielded>>

Return(step, df) ==
    /\ pc' = step
    /\ pred_df' = df
    /\ UNCHANGED <<inputs, exception, retirement_mapping_df, requests_sent, outstanding,
                   cui_gene_id_map, yielded>>

DeleteZeroNoveltyScores ==
    /\ pc = "read_semmed_predication_data_frame"
    /\ Return("delete_zero_novelty_scores", delete_zero_novelty_scores(pred_df))

DeleteInvalidObjectCuis ==
    /\ pc = "delete_zero_novelty_scores"
    /\ Return("delete_invalid_object_cuis", delete_invalid_object_cuis(pred_df))

ExplodePipes ==
    /\ pc = "delete_invalid_object_cuis"
    /\ IF explode_pipes_raises(pred_df)
       THEN Raise(explode_pipes_exception(pred_df))
       ELSE Return("explode_pipes", explode_pipes(pred_df))

DeleteRetiredCuis ==
    /\ pc = "explode_pipes"
    /\ Return("delete_retired_cuis",
              delete_retired_cuis(pred_df, get_retired_cuis_for_deletion(mrcui_file)))

AddPrefixColumns ==
    /\ pc = "delete_retired_cuis"
    /\ Return("add_prefix_columns", add_prefix_columns(pred_df))

MapRetiredCuis ==
    /\ pc = "add_prefix_columns"
    /\ LET mapping == add_cui_name_and_semtype_to_retirement_mapping(
                          get_retirement_mapping_data_frame(mrcui_file),
                          get_cui_name_and_semtype_from_semmed(pred_df),
                          umls_cui_name_semtype_file)
       IN  /\ retirement_mapping_df' = mapping
           /\ pred_df' = map_retired_cuis(pred_df, mapping)
    /\ pc' = "map_retired_cuis"
    /\ UNCHANGED <<inputs, exception, requests_sent, outstanding, cui_gene_id_map, yielded>>

\* resp.raise_for_status() that never raises.
raise_for_status_ignored(status_ok) == "none"

\* resp.raise_for_status(): an HTTPError for a 4xx or 5xx answer.
raise_for_status(status_ok) == IF status_ok THEN "none" ELSE "HTTPError"

\* The CUIs of the chunks posted so far.
queried == UNION ({requests_sent[i].cui_chunk : i \in 1..Len(requests_sent)}
                  \cup outstanding)

\* The CUIs get_cui_to_gene_id_maps asks the Node Normalizer about.
cuis_to_query == candidate_sub_cuis(pred_df) \cup candidate_obj_cuis(pred_df)

\* iter_n that yields all that is left as one chunk.
iter_n_whole(cui_collection, n) == {cui_collection}

\* The next chunk iter_n(cui_collection, n) yields from what is left of the
\* collection: n elements, or all of them when fewer are left, in the order
\* of the set, which is any order.
iter_n(cui_collection, n) ==
    {cui_chunk \in SUBSET cui_collection :
        Cardinality(cui_chunk) = IF Cardinality(cui_collection) < n
                                 THEN Cardinality(cui_collection) ELSE n}

\* A list comprehension that posts a chunk without waiting for the answers
\* of the chunks before it.
may_post_always(posted) == TRUE

\* The list comprehension calls _query for a chunk when the call for the
\* chunk before it has returned.
may_post(posted) == posted = {}

\* The CUIs of a chunk that the JSON body answers with null or with
\* equivalent identifiers none of which is in the NCBIGene namespace.
without_gene_id(cui_chunk, json_resp) ==
    {c \in cui_chunk :
        \/ json_resp[umls_curie(c)].is_null
        \/ \A i \in 1..Len(json_resp[umls_curie(c)].equivalent_identifiers) :
              json_resp[umls_curie(c)].equivalent_identifiers[i][1] # "NCBIGene:"}

\* delete_equivalent_ncbigene_ids up to its first request: with the cache file
\* present, or nothing to ask, it runs to its end.
DeleteEquivalentNcbigeneIds ==
    /\ pc = "map_retired_cuis"
    /\ IF node_norm_cache.exists
       THEN /\ pc' = "delete_equivalent_ncbigene_ids"
            /\ cui_gene_id_map' = node_norm_cache.map
            /\ pred_df' = delete_equivalent_ncbigene_ids(pred_df, node_norm_cache.map)
       ELSE IF cuis_to_query = {}
       THEN /\ pc' = "delete_equivalent_ncbigene_ids"
            /\ cui_gene_id_map' = EmptyMap
            /\ pred_df' = delete_equivalent_ncbigene_ids(pred_df, EmptyMap)
       ELSE /\ pc' = "query_node_normalizer_for_equivalent_ncbigene_ids"
            /\ UNCHANGED <<cui_gene_id_map, pred_df>>
    /\ UNCHANGED <<inputs, exception, retirement_mapping_df, requests_sent,
                   outstanding, yielded>>

\* _query up to requests.post: the next chunk of iter_n(cuis, chunk_size) is
\* posted.
PostCuiChunk ==
    /\ pc = "query_node_normalizer_for_equivalent_ncbigene_ids"
    /\ may_post(outstanding)
    /\ cuis_to_query \ queried # {}
    /\ \E cui_chunk \in iter_n(cuis_to_query \ queried, chunk_size) :
          outstanding' = outstanding \cup {cui_chunk}
    /\ UNCHANGED <<inputs, pc, exception, pred_df, retirement_mapping_df,
                   requests_sent, cui_gene_id_map, yielded>>

\* _query from the answer of requests.post on: raise_for_status, the loop
\* over the JSON body, the merge into the map, and, after the answer to the
\* last chunk, the rest of delete_equivalent_ncbigene_ids.
QueryNodeNormalizer ==
    /\ pc = "query_node_normalizer_for_equivalent_ncbigene_ids"
    /\ \E cui_chunk \in outstanding :
       \E status_ok \in BOOLEAN :
          IF raise_for_status(status_ok) # "none"
          THEN /\ pc' = "raised"
               /\ exception' = raise_for_status(status_ok)
               /\ requests_sent' = Append(requests_sent,
                      [cui_chunk |-> cui_chunk, status_ok |-> status_ok,
                       without_gene_id |-> {}])
               /\ outstanding' = outstanding \ {cui_chunk}
               /\ cui_gene_id_map' = EmptyMap
               /\ pred_df' = pred_df
          ELSE \E json_resp \in [{umls_curie(c) : c \in cui_chunk} -> CurieResults] :
               LET merged_map == merge_maps(cui_gene_id_map,
                                            query(cui_chunk, json_resp))
               IN  /\ requests_sent' = Append(requests_sent,
                          [cui_chunk |-> cui_chunk, status_ok |-> status_ok,
                           without_gene_id |-> without_gene_id(cui_chunk, json_resp)])
                   /\ outstanding' = outstanding \ {cui_chunk}
                   /\ cui_gene_id_map' = merged_map
                   /\ exception' = exception
                   /\ IF cuis_to_query \ queried = {} /\ outstanding = {cui_chunk}
                      THEN /\ pc' = "delete_equivalent_ncbigene_ids"
                           /\ pred_df' = delete_equivalent_ncbigene_ids(
                                             pred_df, merged_map)
                      ELSE /\ pc' = pc
                           /\ pred_df' = pred_df
    /\ UNCHANGED <<inputs, retirement_mapping_df, yielded>>

AddDocumentIdColumn ==
    /\ pc = "delete_equivalent_ncbigene_ids"
    /\ Return("add_document_id_column", add_document_id_column(pred_df))

\* load_data after the data frame is built: set_index(INDEX_COLUMNS).sort_index()
SetIndex ==
    /\ pc = "add_document_id_column"
    /\ Return("set_index", set_index_and_sort(pred_df))

\* The loop of generate_documents over set(index).
GenerateDocuments ==
    /\ pc = "set_index"
    /\ IF generate_documents_raises(pred_df)
       THEN Raise("AttributeError")
       ELSE /\ pc' = "generate_documents"
            /\ yielded' = {index_of(pred_df[i]) : i \in 1..Len(pred_df)}
            /\ UNCHANGED <<inputs, exception, pred_df, retirement_mapping_df,
                           requests_sent, outstanding, cui_gene_id_map>>

Next ==
    \/ DeleteZeroNoveltyScores
    \/ DeleteInvalidObjectCuis
    \/ ExplodePipes
    \/ DeleteRetiredCuis
    \/ AddPrefixColumns
    \/ MapRetiredCuis
    \/ DeleteEquivalentNcbigeneIds
    \/ PostCuiChunk
    \/ QueryNodeNormalizer
    \/ AddDocumentIdColumn
    \/ SetIndex
    \/ GenerateDocuments

\* The documents yielded so far.
documents == [index \in yielded |->
                 document(pred_df, index, semtype_name_map, semmed_sentence_map)]

-----------------------------------------------------------------------------
(* Input universes                                                         *)

INTERACTS == <<"p">>
gngm == <<"gngm">>
aapp == <<"aapp">>
dsyn == <<"dsyn">>

\* The piped row of the parser's docstring, scaled: genes 2|3 against C1|9.
RowPiped ==
    SemmedRow(1, INTERACTS, <<"2", "|", "3">>, <<"a", "|", "b">>, gngm, 1,
              <<"C", "1", "|", "9">>, <<"c", "|", "d">>, aapp, 1)

RowSubjectNoveltyZero == [RowPiped EXCEPT !.SUBJECT_NOVELTY = 0]

RowObjectNoveltyZero ==
    SemmedRow(2, INTERACTS, <<"C", "2">>, <<"e">>, dsyn, 1,
              <<"C", "1">>, <<"c">>, aapp, 0)

\* Free text leaked into the object identifier column ("1|medd").
RowInvalidObject ==
    SemmedRow(2, INTERACTS, <<"2">>, <<"a">>, gngm, 1,
              <<"1", "|", "m">>, <<"c", "|", "d">>, aapp, 1)

\* The same kind of text in the subject identifier column.
RowInvalidSubject ==
    SemmedRow(2, INTERACTS, <<"m", "|", "2">>, <<"e", "|", "a">>, gngm, 1,
              <<"C", "1">>, <<"c">>, aapp, 1)

SemtypeMap == (gngm :> <<"G">>) @@ (aapp :> <<"A">>)

\* The malformed rows of the explode_pipes comment: a double delimiter with a
\* "None" name, on the subject side and on the object side.
RowDoubleDelimiterSubject ==
    SemmedRow(2, INTERACTS, <<"C", "1", "|", "|", "9">>,
              <<"c", "|", "N", "o", "n", "e", "|", "d">>, aapp, 1,
              <<"C", "2">>, <<"e">>, dsyn, 1)

RowDoubleDelimiterObject ==
    SemmedRow(2, INTERACTS, <<"3">>, <<"b">>, gngm, 1,
              <<"C", "1", "|", "|", "9">>,
              <<"c", "|", "N", "o", "n", "e", "|", "d">>, aapp, 1)

\* Two identifiers and one name.
RowNameCountMismatch ==
    SemmedRow(2, INTERACTS, <<"2", "|", "3">>, <<"a">>, gngm, 1,
              <<"C", "2">>, <<"e">>, dsyn, 1)

RowPlain ==
    SemmedRow(2, INTERACTS, <<"C", "2">>, <<"e">>, dsyn, 1,
              <<"C", "1">>, <<"c">>, aapp, 1)

ExplodeRows == {RowPiped, RowDoubleDelimiterSubject, RowDoubleDelimiterObject,
                RowNameCountMismatch, RowPlain}

InitExplode == InitWith(ExplodeRows, {<<>>}, {<<>>}, {NoCache}, {SemtypeMap})

SpecExplode == InitExplode /\ [][Next]_vars

\* Rows with the retired CUIs C5 (subject or object) and C7, and a row that
\* gives the replacement C6 a name from within the dataset.
RowRetiredSubject ==
    SemmedRow(2, INTERACTS, <<"C", "5">>, <<"x">>, dsyn, 1,
              <<"C", "2">>, <<"e">>, dsyn, 1)

RowRetiredObject ==
    SemmedRow(2, INTERACTS, <<"C", "2">>, <<"e">>, dsyn, 1,
              <<"C", "5">>, <<"x">>, dsyn, 1)

RowRetiredBoth ==
    SemmedRow(2, INTERACTS, <<"C", "5">>, <<"x">>, dsyn, 1,
              <<"C", "7">>, <<"n">>, aapp, 1)

RowReplacement ==
    SemmedRow(2, INTERACTS, <<"C", "6">>, <<"o">>, dsyn, 1,
              <<"C", "2">>, <<"e">>, dsyn, 1)

RetireRows == {RowPiped, RowRetiredSubject, RowRetiredObject, RowRetiredBoth,
               RowReplacement}

C2_ == <<"C", "2">>
C5_ == <<"C", "5">>
C6_ == <<"C", "6">>
C7_ == <<"C", "7">>
C8_ == <<"C", "8">>

\* MRCUI.RRF files: a replacement, a deletion, a deletion that also names a
\* replacement (in one row, in two rows), replacements for both C5 and C7, a
\* replacement that is retired itself, two replacements, a replacement of
\* another semantic type.
MrcuiFiles ==
    {<<MrcuiRow(C5_, "RO", C6_)>>,
     <<MrcuiRow(C5_, "DEL", NaN)>>,
     <<MrcuiRow(C5_, "DEL", C6_)>>,
     <<MrcuiRow(C5_, "DEL", NaN), MrcuiRow(C5_, "RO", C6_)>>,
     <<MrcuiRow(C5_, "RO", C6_), MrcuiRow(C7_, "SY", C8_)>>,
     <<MrcuiRow(C5_, "RO", C6_), MrcuiRow(C6_, "RO", C8_)>>,
     <<MrcuiRow(C5_, "RO", C6_), MrcuiRow(C5_, "RO", C8_)>>,
     <<MrcuiRow(C5_, "RO", C8_)>>}

\* UMLS name files: no name at all, a name for C6 (dsyn) and C8 (aapp), and
\* C8 under dsyn too.
UmlsFiles ==
    {<<>>,
     <<UmlsRow(C6_, <<"y">>, dsyn), UmlsRow(C8_, <<"z">>, aapp)>>,
     <<UmlsRow(C6_, <<"y">>, dsyn), UmlsRow(C8_, <<"z">>, aapp),
       UmlsRow(C8_, <<"z">>, dsyn)>>}

InitRetire == InitWith(RetireRows, MrcuiFiles, UmlsFiles, {NoCache}, {SemtypeMap})

SpecRetire == InitRetire /\ [][Next]_vars

\* Piped rows with concept identifiers beside gene ids: on both sides, and two
\* concept identifiers on one side.
RowPipedBothSides ==
    SemmedRow(1, INTERACTS, <<"C", "3", "|", "2">>, <<"e", "|", "a">>, gngm, 1,
              <<"C", "1", "|", "9">>, <<"c", "|", "d">>, aapp, 1)

RowTwoConcepts ==
    SemmedRow(1, INTERACTS, <<"3">>, <<"b">>, gngm, 1,
              <<"C", "1", "|", "C", "4", "|", "9">>, <<"c", "|", "m", "|", "d">>, aapp, 1)

OracleRows == {RowPiped, RowPipedBothSides, RowTwoConcepts}

\* A Node Normalizer cache file written by an earlier run.
Cache == CacheOf((<<"C", "1">> :> <<"9">>) @@ (<<"C", "3">> :> <<"2">>))

InitOracle == InitWith(OracleRows, {<<>>}, {<<>>}, {NoCache, Cache}, {SemtypeMap})

SpecOracle == InitOracle /\ [][Next]_vars

\* Piped rows that share their index triples: another citation, and subject
\* semantic types the semantic-type map has no name for.
orch == <<"orch">>

RowPipedOtherPmid == [RowPiped EXCEPT !.PMID = 2]

RowPipedUnmapped == [RowPiped EXCEPT !.SUBJECT_SEMTYPE = dsyn]

RowPipedUnmappedToo ==
    [RowPiped EXCEPT !.SUBJECT_SEMTYPE = orch, !.SUBJECT_NAME = <<"a", "|", "e">>]

DocumentRows == {RowPiped, RowPipedOtherPmid, RowPipedUnmapped, RowPipedUnmappedToo,
                 RowPlain}

InitDocuments == InitWith(DocumentRows, {<<>>}, {<<>>}, {NoCache}, {SemtypeMap})

SpecDocuments == InitDocuments /\ [][Next]_vars

\* Rows piped on the object side alone (3 against C1|9), from two citations,
\* and a row with no pipe.
ArrivalRows ==
    {[RowPiped EXCEPT !.SUBJECT_CUI = <<"3">>, !.SUBJECT_NAME = <<"b">>],
     [RowPiped EXCEPT !.SUBJECT_CUI = <<"3">>, !.SUBJECT_NAME = <<"b">>, !.PMID = 2],
     RowPlain}

InitArrival == InitWith(ArrivalRows, {<<>>}, {<<>>}, {NoCache}, {SemtypeMap})

SpecArrival == InitArrival /\ [][Next]_vars

\* A row whose retired subject C5 stands beside the replacement C6, which
\* the row itself names "o"; with RowRetiredSubject, where no row names C6.
RowRetiredBesideReplacement ==
    SemmedRow(2, INTERACTS, <<"C", "5">>, <<"x">>, dsyn, 1,
              <<"C", "6">>, <<"o">>, dsyn, 1)

NameRows == {RowPiped, RowRetiredSubject, RowRetiredBesideReplacement}

InitNames == InitWith(NameRows, MrcuiFiles, UmlsFiles, {NoCache}, {SemtypeMap})

SpecNames == InitNames /\ [][Next]_vars

\* A row retired on both sides, with UMLS files that name the replacement of
\* neither side, of the subject alone, of the object alone, and of both.
BothSidesRows == {RowPiped, RowRetiredBoth}

BothSidesUmlsFiles ==
    {<<>>,
     <<UmlsRow(C6_, <<"y">>, dsyn)>>,
     <<UmlsRow(C8_, <<"z">>, aapp)>>,
     <<UmlsRow(C6_, <<"y">>, dsyn), UmlsRow(C8_, <<"z">>, aapp)>>}

InitBothSides ==
    InitWith(BothSidesRows, {<<MrcuiRow(C5_, "RO", C6_), MrcuiRow(C7_, "SY", C8_)>>},
             BothSidesUmlsFiles, {NoCache}, {SemtypeMap})

SpecBothSides == InitBothSides /\ [][Next]_vars

FilterRows == {RowPiped, RowSubjectNoveltyZero, RowObjectNoveltyZero,
               RowInvalidObject, RowInvalidSubject}

InitFilter == InitWith(FilterRows, {<<>>}, {<<>>}, {NoCache}, {SemtypeMap})

SpecFilter == InitFilter /\ [][Next]_vars

-----------------------------------------------------------------------------
(* Claims                                                                  *)

\* The predication ids of the rows of a frame.
pred_ids(df) == {df[i].PREDICATION_ID : i \in 1..Len(df)}

\* The rows of the PREDICATION file with a zero novelty score.
zero_novelty_rows ==
    {i \in 1..Len(semmed_predication_file) :
        \/ semmed_predication_file[i].SUBJECT_NOVELTY = 0
        \/ semmed_predication_file[i].OBJECT_NOVELTY = 0}

\* The predication ids in the evidence lists of the documents yielded so far.
evidence_pred_ids ==
    UNION {{documents[index].predication[k].predication_id :
               k \in 1..Len(documents[index].predication)} : index \in yielded}

\* C1: once delete_zero_novelty_scores has returned, no row of the data frame
\* and no evidence entry of a yielded document carries the predication id of a
\* file row whose subject or object novelty is 0.
C1_NoZeroNovelty ==
    pc # "read_semmed_predication_data_frame" =>
        \A i \in zero_novelty_rows :
            /\ semmed_predication_file[i].PREDICATION_ID \notin pred_ids(pred_df)
            /\ semmed_predication_file[i].PREDICATION_ID \notin evidence_pred_ids

\* C1 witness: documents were yielded from a file that has a zero-novelty row.
C1_Witness ==
    /\ pc = "generate_documents"
    /\ yielded # {}
    /\ zero_novelty_rows # {}

\* A character other than "C", a digit or "|" occurs in s, or s is empty.
has_foreign_character(s) ==
    \/ s = <<>>
    \/ \E i \in 1..Len(s) :
          ~(\E d \in 0..9 : s[i] = Digit(d)) /\ s[i] # "C" /\ s[i] # "|"

\* C2: when delete_invalid_object_cuis has returned, the rows left are exactly
\* the rows delete_zero_novelty_scores left whose object identifier field has
\* no foreign character, whatever their subject identifier field holds.
C2_InvalidObjectOnly ==
    pc = "delete_invalid_object_cuis" =>
        pred_ids(pred_df) =
            {semmed_predication_file[i].PREDICATION_ID :
                i \in {k \in 1..Len(semmed_predication_file) :
                          /\ k \notin zero_novelty_rows
                          /\ ~has_foreign_character(semmed_predication_file[k].OBJECT_CUI)}}

\* C2 witness: a row with a foreign character in its object field was removed
\* and a row with one in its subject field was kept.
C2_Witness ==
    /\ pc = "delete_invalid_object_cuis"
    /\ \E i \in 1..Len(semmed_predication_file) :
          /\ i \notin zero_novelty_rows
          /\ has_foreign_character(semmed_predication_file[i].OBJECT_CUI)
          /\ semmed_predication_file[i].PREDICATION_ID \notin pred_ids(pred_df)
    /\ \E k \in 1..Len(pred_df) : has_foreign_character(pred_df[k].SUBJECT_CUI)


\* The file rows that pass the Record Filter.
valid_rows ==
    {i \in 1..Len(semmed_predication_file) :
        /\ i \notin zero_novelty_rows
        /\ ~has_foreign_character(semmed_predication_file[i].OBJECT_CUI)}

\* The positions in the data frame of the rows of one predication id.
rows_of(pid) == {k \in 1..Len(pred_df) : pred_df[k].PREDICATION_ID = pid}

\* The number of tokens of a field: one more than its delimiters.
n_tokens(s) == Cardinality({i \in 1..Len(s) : s[i] = "|"}) + 1

NoneName == <<"N", "o", "n", "e">>

\* The positions of the tokens of a side that are non-empty and named.
present_tokens(cuis, names) ==
    {i \in 1..Len(str_split(cuis)) :
        /\ i <= Len(str_split(names))
        /\ str_split(cuis)[i] # <<>>
        /\ str_split(names)[i] # NoneName}

\* Every token of both sides of file row i is non-empty and named.
all_tokens_present(i) ==
    LET r == semmed_predication_file[i]
    IN  /\ Cardinality(present_tokens(r.SUBJECT_CUI, r.SUBJECT_NAME)) = n_tokens(r.SUBJECT_CUI)
        /\ Cardinality(present_tokens(r.OBJECT_CUI, r.OBJECT_NAME)) = n_tokens(r.OBJECT_CUI)

\* m x n of file row i.
product(i) == n_tokens(semmed_predication_file[i].SUBJECT_CUI)
              * n_tokens(semmed_predication_file[i].OBJECT_CUI)

\* "pid-k"
suffixed_id(pid, k) == IntToStr(pid) \o <<"-">> \o IntToStr(k)

\* Expansion is multiplicative: when explode_pipes has returned, a valid row
\* all of whose tokens are present has m x n rows in the data frame.
Multiplicative ==
    pc = "explode_pipes" =>
        \A i \in valid_rows :
            all_tokens_present(i) =>
                Cardinality(rows_of(semmed_predication_file[i].PREDICATION_ID)) = product(i)

\* The rows of file row i that all reached add_document_id_column.
all_reached_ids(i) ==
    /\ i \in valid_rows
    /\ all_tokens_present(i)
    /\ Cardinality(rows_of(semmed_predication_file[i].PREDICATION_ID)) = product(i)

\* C4 as claimed: m x n rows, and the row made of subject token a and object
\* token b has the suffix (a - 1) * n + b.
C4_CombinationOrder ==
    /\ Multiplicative
    /\ pc = "add_document_id_column" =>
          \A i \in 1..Len(semmed_predication_file) :
              all_reached_ids(i) =>
                  LET r  == semmed_predication_file[i]
                      sc == str_split(r.SUBJECT_CUI)
                      oc == str_split(r.OBJECT_CUI)
                  IN  \A k \in rows_of(r.PREDICATION_ID) :
                          \E a \in 1..Len(sc), b \in 1..Len(oc) :
                              /\ pred_df[k].SUBJECT_CUI = sc[a]
                              /\ pred_df[k].OBJECT_CUI = oc[b]
                              /\ pred_df[k]._ID =
                                     suffixed_id(r.PREDICATION_ID, (a - 1) * Len(oc) + b)

\* C4, amended: m x n rows when explode_pipes returns; and when all of them
\* reach add_document_id_column and m x n > 1, their ids are pid-1 .. pid-mn,
\* a row with a smaller suffix having the greater subject identifier or the
\* same subject and no smaller an object identifier (Python string order).
C4_DescendingOrder ==
    /\ Multiplicative
    /\ pc = "add_document_id_column" =>
          \A i \in 1..Len(semmed_predication_file) :
              (all_reached_ids(i) /\ product(i) > 1) =>
                  LET pid == semmed_predication_file[i].PREDICATION_ID
                      suffix(k) == CHOOSE x \in 1..product(i) :
                                       pred_df[k]._ID = suffixed_id(pid, x)
                  IN  /\ {pred_df[k]._ID : k \in rows_of(pid)} =
                             {suffixed_id(pid, x) : x \in 1..product(i)}
                      /\ \A k1, k2 \in rows_of(pid) :
                            suffix(k1) < suffix(k2) =>
                                \/ StrLess(pred_df[k2].SUBJECT_CUI, pred_df[k1].SUBJECT_CUI)
                                \/ /\ pred_df[k1].SUBJECT_CUI = pred_df[k2].SUBJECT_CUI
                                   /\ ~StrLess(pred_df[k1].OBJECT_CUI, pred_df[k2].OBJECT_CUI)

\* C4 witness: the four rows of a 2 x 2 file row have their document ids.
C4_Witness ==
    /\ pc = "add_document_id_column"
    /\ \E i \in 1..Len(semmed_predication_file) :
          /\ all_reached_ids(i)
          /\ n_tokens(semmed_predication_file[i].SUBJECT_CUI) = 2
          /\ n_tokens(semmed_predication_file[i].OBJECT_CUI) = 2

\* A field holding a concept-identifier marker and the delimiter.
is_mixed(cuis) == (\E i \in 1..Len(cuis) : cuis[i] = "C") /\ str_contains_pipe(cuis)

\* The identifiers a side of file row i has among the rows of the data frame.
subject_ids_of(pid) == {pred_df[k].SUBJECT_CUI : k \in rows_of(pid)}
object_ids_of(pid)  == {pred_df[k].OBJECT_CUI : k \in rows_of(pid)}

\* C5 as claimed: when explode_pipes has returned, a side whose field holds
\* "C" and "|" has one identifier among the rows of its predication, the
\* first token.
C5_Squeezed ==
    pc = "explode_pipes" =>
        \A i \in valid_rows :
            LET r == semmed_predication_file[i]
            IN  /\ is_mixed(r.SUBJECT_CUI) =>
                       subject_ids_of(r.PREDICATION_ID) \subseteq {Head(str_split(r.SUBJECT_CUI))}
                /\ is_mixed(r.OBJECT_CUI) =>
                       object_ids_of(r.PREDICATION_ID) \subseteq {Head(str_split(r.OBJECT_CUI))}

\* C5, amended: no side is squeezed.  When explode_pipes has returned, a side
\* whose field holds "C" and "|" has, among the rows of its predication, every
\* one of its tokens that is non-empty and named (the other side having such
\* a token too), and no other identifier.
C5_NotSqueezed ==
    pc = "explode_pipes" =>
        \A i \in valid_rows :
            LET r  == semmed_predication_file[i]
                sp == present_tokens(r.SUBJECT_CUI, r.SUBJECT_NAME)
                op == present_tokens(r.OBJECT_CUI, r.OBJECT_NAME)
            IN  /\ (is_mixed(r.SUBJECT_CUI) /\ op # {}) =>
                       subject_ids_of(r.PREDICATION_ID) = {str_split(r.SUBJECT_CUI)[a] : a \in sp}
                /\ (is_mixed(r.OBJECT_CUI) /\ sp # {}) =>
                       object_ids_of(r.PREDICATION_ID) = {str_split(r.OBJECT_CUI)[b] : b \in op}

\* C5 witness: a side with "C" and "|" has two identifiers in the data frame.
C5_Witness ==
    /\ pc = "explode_pipes"
    /\ \E i \in valid_rows :
          /\ is_mixed(semmed_predication_file[i].OBJECT_CUI)
          /\ Cardinality(object_ids_of(semmed_predication_file[i].PREDICATION_ID)) = 2

\* C6: when explode_pipes has returned, no row that came from a piped file row
\* has an empty identifier or the name "None" on either side, and every
\* combination of a present subject token with a present object token of a
\* piped file row is a row of the data frame.
C6_NoEmptyValues ==
    pc = "explode_pipes" =>
        /\ \A k \in 1..Len(pred_df) :
              (pred_df[k].IS_SUBJECT_PIPED \/ pred_df[k].IS_OBJECT_PIPED) =>
                  /\ pred_df[k].SUBJECT_CUI # <<>>
                  /\ pred_df[k].OBJECT_CUI # <<>>
                  /\ pred_df[k].SUBJECT_NAME # NoneName
                  /\ pred_df[k].OBJECT_NAME # NoneName
        /\ \A i \in valid_rows :
              LET r == semmed_predication_file[i]
              IN  (str_contains_pipe(r.SUBJECT_CUI) \/ str_contains_pipe(r.OBJECT_CUI)) =>
                      \A a \in present_tokens(r.SUBJECT_CUI, r.SUBJECT_NAME),
                         b \in present_tokens(r.OBJECT_CUI, r.OBJECT_NAME) :
                          \E k \in rows_of(r.PREDICATION_ID) :
                              /\ pred_df[k].SUBJECT_CUI = str_split(r.SUBJECT_CUI)[a]
                              /\ pred_df[k].SUBJECT_NAME = str_split(r.SUBJECT_NAME)[a]
                              /\ pred_df[k].OBJECT_CUI = str_split(r.OBJECT_CUI)[b]
                              /\ pred_df[k].OBJECT_NAME = str_split(r.OBJECT_NAME)[b]

\* C6 witness: a file row with an empty object token was exploded and two of
\* its rows are in the data frame.
C6_Witness ==
    /\ pc = "explode_pipes"
    /\ \E i \in valid_rows :
          /\ \E b \in 1..Len(str_split(semmed_predication_file[i].OBJECT_CUI)) :
                str_split(semmed_predication_file[i].OBJECT_CUI)[b] = <<>>
          /\ Cardinality(rows_of(semmed_predication_file[i].PREDICATION_ID)) = 2


\* The retired identifiers: the CUI1 keys of the retirement mapping.
retired_keys == {retirement_mapping_df[i].CUI1 : i \in 1..Len(retirement_mapping_df)}

\* The replacement identifiers of the retirement mapping.
replacement_cuis == {retirement_mapping_df[i].CUI2 : i \in 1..Len(retirement_mapping_df)}

no_retired_identifier_left ==
    \A k \in 1..Len(pred_df) :
        pred_df[k].SUBJECT_CUI \notin retired_keys /\ pred_df[k].OBJECT_CUI \notin retired_keys

\* C7 as claimed: when map_retired_cuis has returned, no identifier of the
\* data frame is a CUI1 key of the retirement mapping, whatever the mapping,
\* and map_retired_cuis maps the data frame to itself.
C7_NoRetiredLeft ==
    pc = "map_retired_cuis" =>
        /\ no_retired_identifier_left
        /\ map_retired_cuis(pred_df, retirement_mapping_df) = pred_df

\* C7, amended: the same for every retirement mapping whose CUI1 and CUI2
\* columns have no identifier in common.
C7_NoRetiredLeftDisjoint ==
    (pc = "map_retired_cuis" /\ retired_keys \cap replacement_cuis = {}) =>
        /\ no_retired_identifier_left
        /\ map_retired_cuis(pred_df, retirement_mapping_df) = pred_df

\* The file rows neither side of which delete_retired_cuis deletes.
not_deleted_rows ==
    {i \in valid_rows :
        /\ semmed_predication_file[i].SUBJECT_CUI \notin get_retired_cuis_for_deletion(mrcui_file)
        /\ semmed_predication_file[i].OBJECT_CUI \notin get_retired_cuis_for_deletion(mrcui_file)}

\* C7 witness: the row of a file row with a retired subject is in the data
\* frame with a replacement as its subject.
C7_Witness ==
    /\ pc = "map_retired_cuis"
    /\ retired_keys \cap replacement_cuis = {}
    /\ \E i \in not_deleted_rows : \E k \in rows_of(semmed_predication_file[i].PREDICATION_ID) :
          /\ semmed_predication_file[i].SUBJECT_CUI \in retired_keys
          /\ pred_df[k].SUBJECT_CUI \in replacement_cuis

\* The retirement mapping has a named replacement of that semantic type.
has_replacement(cui, semtype) ==
    \E i \in 1..Len(retirement_mapping_df) :
        /\ retirement_mapping_df[i].CUI1 = cui
        /\ retirement_mapping_df[i].CUI2_SEMTYPE = semtype
        /\ retirement_mapping_df[i].CUI2_NAME # NaN

\* File row i has a retired identifier with no named replacement of its
\* semantic type.
unresolvable(i) ==
    LET r == semmed_predication_file[i]
    IN  \/ r.SUBJECT_CUI \in retired_keys /\ ~has_replacement(r.SUBJECT_CUI, r.SUBJECT_SEMTYPE)
        \/ r.OBJECT_CUI \in retired_keys /\ ~has_replacement(r.OBJECT_CUI, r.OBJECT_SEMTYPE)

\* From map_retired_cuis on.
resolved_steps == {"map_retired_cuis", "query_node_normalizer_for_equivalent_ncbigene_ids",
                   "delete_equivalent_ncbigene_ids", "add_document_id_column",
                   "set_index", "generate_documents"}

\* C8: from map_retired_cuis on, a file row whose subject or object identifier
\* is retired and has no named replacement of the same semantic type in the
\* retirement mapping has no row in the data frame and no evidence entry in a
\* document.
C8_UnresolvableRemoved ==
    pc \in resolved_steps =>
        \A i \in 1..Len(semmed_predication_file) :
            unresolvable(i) =>
                /\ semmed_predication_file[i].PREDICATION_ID \notin pred_ids(pred_df)
                /\ semmed_predication_file[i].PREDICATION_ID \notin evidence_pred_ids

\* C8 witness: map_retired_cuis got a row whose retired subject has a
\* replacement in MRCUI that has no name (a NaN name in the mapping).
C8_Witness ==
    /\ pc = "map_retired_cuis"
    /\ \E i \in not_deleted_rows :
          /\ unresolvable(i)
          /\ \E m \in 1..Len(retirement_mapping_df) :
                /\ retirement_mapping_df[m].CUI1 = semmed_predication_file[i].SUBJECT_CUI
                /\ retirement_mapping_df[m].CUI2_NAME = NaN

\* The CUIs with a "DEL" row in MRCUI.
del_cuis == {mrcui_file[i].CUI1 : i \in {k \in 1..Len(mrcui_file) : mrcui_file[k].REL = "DEL"}}

\* From delete_retired_cuis on.
deleted_steps == {"delete_retired_cuis", "add_prefix_columns"} \cup resolved_steps

\* C9: when delete_retired_cuis has returned no identifier of the data frame
\* has a "DEL" row, and from then on a file row whose subject or object
\* identifier has a "DEL" row has no row in the data frame and no evidence
\* entry in a document, whether or not MRCUI names a replacement for it.
C9_DeletedNeverResolved ==
    /\ pc = "delete_retired_cuis" =>
          \A k \in 1..Len(pred_df) :
              pred_df[k].SUBJECT_CUI \notin del_cuis /\ pred_df[k].OBJECT_CUI \notin del_cuis
    /\ pc \in deleted_steps =>
          \A i \in 1..Len(semmed_predication_file) :
              (\/ semmed_predication_file[i].SUBJECT_CUI \in del_cuis
               \/ semmed_predication_file[i].OBJECT_CUI \in del_cuis) =>
                  /\ semmed_predication_file[i].PREDICATION_ID \notin pred_ids(pred_df)
                  /\ semmed_predication_file[i].PREDICATION_ID \notin evidence_pred_ids

\* C9 witness: map_retired_cuis has returned on a file with a row whose
\* identifier has a "DEL" row and a named replacement of its semantic type.
C9_Witness ==
    /\ pc = "map_retired_cuis"
    /\ \E i \in valid_rows :
          /\ semmed_predication_file[i].SUBJECT_CUI \in del_cuis
          /\ has_replacement(semmed_predication_file[i].SUBJECT_CUI,
                             semmed_predication_file[i].SUBJECT_SEMTYPE)


\* The step in which delete_equivalent_ncbigene_ids drops rows and returns.
collapse_step ==
    pc # "delete_equivalent_ncbigene_ids" /\ pc' = "delete_equivalent_ncbigene_ids"

\* Row k of df is a candidate on its subject side (a concept identifier on a
\* piped side) whose gene id in the map is the subject of a row of the same
\* predication id.
subject_candidate(df, k, map) ==
    /\ df[k].IS_SUBJECT_PIPED
    /\ df[k].SUBJECT_PREFIX = "umls"
    /\ df[k].SUBJECT_CUI \in DOMAIN map
    /\ \E j \in 1..Len(df) :
          /\ df[j].PREDICATION_ID = df[k].PREDICATION_ID
          /\ df[j].SUBJECT_CUI = map[df[k].SUBJECT_CUI]

object_candidate(df, k, map) ==
    /\ df[k].IS_OBJECT_PIPED
    /\ df[k].OBJECT_PREFIX = "umls"
    /\ df[k].OBJECT_CUI \in DOMAIN map
    /\ \E j \in 1..Len(df) :
          /\ df[j].PREDICATION_ID = df[k].PREDICATION_ID
          /\ df[j].OBJECT_CUI = map[df[k].OBJECT_CUI]

\* No other concept identifier of the predication id has a gene id in the map,
\* on that side.
sole_subject_concept(df, k, map) ==
    \A j \in 1..Len(df) :
        (/\ df[j].PREDICATION_ID = df[k].PREDICATION_ID
         /\ df[j].SUBJECT_PREFIX = "umls"
         /\ df[j].SUBJECT_CUI \in DOMAIN map) => df[j].SUBJECT_CUI = df[k].SUBJECT_CUI

sole_object_concept(df, k, map) ==
    \A j \in 1..Len(df) :
        (/\ df[j].PREDICATION_ID = df[k].PREDICATION_ID
         /\ df[j].OBJECT_PREFIX = "umls"
         /\ df[j].OBJECT_CUI \in DOMAIN map) => df[j].OBJECT_CUI = df[k].OBJECT_CUI

has_subject(df, pid, cui) ==
    \E j \in 1..Len(df) : df[j].PREDICATION_ID = pid /\ df[j].SUBJECT_CUI = cui

has_object(df, pid, cui) ==
    \E j \in 1..Len(df) : df[j].PREDICATION_ID = pid /\ df[j].OBJECT_CUI = cui

\* C3 as claimed: delete_equivalent_ncbigene_ids removes the rows with the
\* concept identifier of every candidate whose gene id is the identifier of a
\* row of the same predication id on the same side, and keeps a row with the
\* gene id.
C3_ConceptRecordRemoved ==
    [][collapse_step =>
        \A k \in 1..Len(pred_df) :
            /\ subject_candidate(pred_df, k, cui_gene_id_map') =>
                  /\ ~has_subject(pred_df', pred_df[k].PREDICATION_ID, pred_df[k].SUBJECT_CUI)
                  /\ has_subject(pred_df', pred_df[k].PREDICATION_ID,
                                 cui_gene_id_map'[pred_df[k].SUBJECT_CUI])
            /\ object_candidate(pred_df, k, cui_gene_id_map') =>
                  /\ ~has_object(pred_df', pred_df[k].PREDICATION_ID, pred_df[k].OBJECT_CUI)
                  /\ has_object(pred_df', pred_df[k].PREDICATION_ID,
                                cui_gene_id_map'[pred_df[k].OBJECT_CUI])]_vars

\* C3, amended: for every such candidate whose concept identifier is the only
\* one of its predication id with a gene id on that side,
\* delete_equivalent_ncbigene_ids removes every row of the predication id with
\* the gene id on that side and keeps a row with the concept identifier.
C3_GeneRecordRemoved ==
    [][collapse_step =>
        \A k \in 1..Len(pred_df) :
            /\ (/\ subject_candidate(pred_df, k, cui_gene_id_map')
                /\ sole_subject_concept(pred_df, k, cui_gene_id_map')) =>
                  /\ has_subject(pred_df', pred_df[k].PREDICATION_ID, pred_df[k].SUBJECT_CUI)
                  /\ ~has_subject(pred_df', pred_df[k].PREDICATION_ID,
                                  cui_gene_id_map'[pred_df[k].SUBJECT_CUI])
            /\ (/\ object_candidate(pred_df, k, cui_gene_id_map')
                /\ sole_object_concept(pred_df, k, cui_gene_id_map')) =>
                  /\ has_object(pred_df', pred_df[k].PREDICATION_ID, pred_df[k].OBJECT_CUI)
                  /\ ~has_object(pred_df', pred_df[k].PREDICATION_ID,
                                 cui_gene_id_map'[pred_df[k].OBJECT_CUI])]_vars

\* The tokens of a field.
tokens(s) == Range(str_split(s))

\* C3 witness: delete_equivalent_ncbigene_ids has returned, a file row has a
\* concept identifier and its gene id among the tokens of its object field,
\* and the data frame has the row with the concept identifier and none with
\* the gene id.
C3_Witness ==
    /\ pc = "delete_equivalent_ncbigene_ids"
    /\ \E i \in valid_rows : \E cui \in DOMAIN cui_gene_id_map :
          /\ {cui, cui_gene_id_map[cui]} \subseteq tokens(semmed_predication_file[i].OBJECT_CUI)
          /\ has_object(pred_df, i, cui)
          /\ ~has_object(pred_df, i, cui_gene_id_map[cui])

\* A request to the Node Normalizer was answered with an error status.
batch_failed(requests) == \E i \in 1..Len(requests) : ~requests[i].status_ok

\* C10: a step in which a request to the Node Normalizer fails raises, leaves
\* the data frame as it was (no row dropped on a partial map, no document id
\* column) and yields no document, and no step follows it.
C10_FailedBatchFailsStep ==
    [][/\ ~batch_failed(requests_sent)
       /\ batch_failed(requests_sent') =>
              /\ pc' = "raised"
              /\ pred_df' = pred_df
              /\ yielded' = {}]_vars

\* C10 witness: the second chunk failed after the first was answered.
C10_Witness ==
    /\ pc = "raised"
    /\ Len(requests_sent) = 2
    /\ requests_sent[1].status_ok
    /\ ~requests_sent[2].status_ok
    /\ pred_df # <<>>


\* The positions in the data frame of the rows of one index triple.
group_of(index) == {k \in 1..Len(pred_df) : index_of(pred_df[k]) = index}

\* Rows of the genes 2|23 against C1|9 whose predicates differ: "p", and two
\* with the separator of the document id in them, "-p" and "3-p" (a digit in
\* front, as in the numeric predicates of the dataset).
RowTwoGenes ==
    SemmedRow(1, INTERACTS, <<"2", "|", "2", "3">>, <<"a", "|", "b">>, gngm, 1,
              <<"C", "1", "|", "9">>, <<"c", "|", "d">>, aapp, 1)

RowDashPredicate == [RowTwoGenes EXCEPT !.PREDICATE = <<"-", "p">>]

RowDigitPredicate == [RowTwoGenes EXCEPT !.PREDICATE = <<"3", "-", "p">>]

IdRows == {RowTwoGenes, RowDigitPredicate, RowDashPredicate}

InitIds == InitWith(IdRows, {<<>>}, {<<>>}, {NoCache}, {SemtypeMap})

SpecIds == InitIds /\ [][Next]_vars

\* C11: in every yielded document predication_count is the number of rows of
\* the final data frame with the document's (subject, predicate, object)
\* triple, pmid_count is the number of distinct PMIDs of these rows, and
\* pmid_count <= predication_count.
C11_Counts ==
    \A index \in yielded :
        /\ documents[index].predication_count = Cardinality(group_of(index))
        /\ documents[index].pmid_count
              = Cardinality({pred_df[k].PMID : k \in group_of(index)})
        /\ documents[index].pmid_count <= documents[index].predication_count

\* C11 witness: a yielded document of three rows from two citations.
C11_Witness ==
    \E index \in yielded :
        /\ documents[index].predication_count = 3
        /\ documents[index].pmid_count = 2


\* The data frame with rows i and j exchanged.
swap(df, i, j) ==
    [k \in 1..Len(df) |-> IF k = i THEN df[j] ELSE IF k = j THEN df[i] ELSE df[k]]

\* C12: the documents yielded for the final data frame and their ids are the
\* same when two neighbouring rows of it arrive in exchanged order (the
\* exchanges that make up every reordering): load_data on the reordered rows
\* yields a document for the same triples, and the document of a triple has
\* the same id.
C12_ArrivalOrder ==
    pc = "generate_documents" =>
        \A i \in 1..(Len(pred_df) - 1) :
            LET other == set_index_and_sort(swap(pred_df, i, i + 1))
            IN  /\ ~generate_documents_raises(other)
                /\ {index_of(other[k]) : k \in 1..Len(other)} = yielded
                /\ \A index \in yielded :
                      document(other, index, semtype_name_map, semmed_sentence_map)._id
                          = documents[index]._id

\* C12 witness: documents were yielded for a data frame in which a triple has
\* rows of two predication ids, and another triple has one row.
C12_Witness ==
    /\ pc = "generate_documents"
    /\ \E index \in yielded :
          Cardinality({pred_df[k].PREDICATION_ID : k \in group_of(index)}) > 1
    /\ \E index \in yielded : Cardinality(group_of(index)) = 1


\* The triple joined by "-".
joined_triple(index) == index[1] \o <<"-">> \o index[2] \o <<"-">> \o index[3]

\* The group of the triple is one row, of a file row with no "|" in its
\* subject and object fields.
single_fact(index) ==
    /\ Cardinality(group_of(index)) = 1
    /\ \A k \in group_of(index) :
          /\ ~str_contains_pipe(semmed_predication_file[pred_df[k].PREDICATION_ID].SUBJECT_CUI)
          /\ ~str_contains_pipe(semmed_predication_file[pred_df[k].PREDICATION_ID].OBJECT_CUI)

\* C13 as claimed: the id of a yielded document is the joined triple, except
\* that a document of one row whose file row was never multi-valued has the
\* bare predication id as its id.
C13_BareIdWhenSingle ==
    \A index \in yielded :
        IF single_fact(index)
        THEN \A k \in group_of(index) :
                 documents[index]._id = IntToStr(pred_df[k].PREDICATION_ID)
        ELSE documents[index]._id = joined_triple(index)

\* C13, amended: the id of every yielded document is the joined triple, also
\* when its group is one row of a file row that was never multi-valued; the
\* bare predication id is the _ID column of that row and is not the id of its
\* document.
C13_JoinedTriple ==
    \A index \in yielded :
        /\ documents[index]._id = joined_triple(index)
        /\ single_fact(index) =>
              \A k \in group_of(index) :
                  /\ pred_df[k]._ID = IntToStr(pred_df[k].PREDICATION_ID)
                  /\ documents[index]._id # pred_df[k]._ID

\* C13 witness: a document was yielded for a group of one row whose file row
\* was never multi-valued.
C13_Witness == \E index \in yielded : single_fact(index)


\* The semantic type abbreviations of the rows of a triple, per side.
subject_semtypes(index) == {pred_df[k].SUBJECT_SEMTYPE : k \in group_of(index)}

object_semtypes(index) == {pred_df[k].OBJECT_SEMTYPE : k \in group_of(index)}

\* The semantic_type_name field of an entity is there exactly when the
\* semantic-type map has an entry for an abbreviation of its side, and then
\* it is no null and holds no null (it is a list when the side has several
\* abbreviations).
semtype_name_as_claimed(entity, semtypes) ==
    /\ "semantic_type_name" \in DOMAIN entity
          <=> (\E semtype \in semtypes : semtype \in DOMAIN semtype_name_map)
    /\ "semantic_type_name" \in DOMAIN entity =>
          IF Cardinality(semtypes) > 1
          THEN \A i \in 1..Len(entity.semantic_type_name) :
                   entity.semantic_type_name[i] # None
          ELSE entity.semantic_type_name # None

\* C14 as claimed: in every yielded document the semantic_type_name of the
\* subject and of the object is present if and only if the semantic-type map
\* has an entry for the side's abbreviation, and when present it is no null
\* and contains no null, for groups of one row and for groups with several
\* abbreviations.
C14_SemtypeNamePresence ==
    \A index \in yielded :
        /\ semtype_name_as_claimed(documents[index].subject, subject_semtypes(index))
        /\ semtype_name_as_claimed(documents[index].object, object_semtypes(index))

\* The identifier keys of an entity: "umls" for a concept, "ncbigene" for a
\* gene.
id_keys(entity) == {"umls", "ncbigene"} \cap DOMAIN entity

\* An entity carries one identifier key, which is "umls" exactly when its
\* identifier starts with "C", and the key holds the identifier.
one_id_key(entity, cui) ==
    /\ Cardinality(id_keys(entity)) = 1
    /\ "umls" \in id_keys(entity) <=> str_startswith_C(cui)
    /\ \A key \in id_keys(entity) : entity[key] = cui

\* C15: in every yielded document the subject and the object each carry
\* exactly one of the keys "umls" and "ncbigene", and the key is "umls"
\* exactly when the identifier of the entity starts with "C"; this holds for
\* identifiers written by the retired-CUI replacement too.
C15_OneIdentifierKey ==
    \A index \in yielded :
        /\ one_id_key(documents[index].subject, index[1])
        /\ one_id_key(documents[index].object, index[3])

\* A document is yielded whose subject is the replacement C6, which no row
\* of the file has as its subject, beside a document with a gene subject.
C15_Witness ==
    /\ \A i \in 1..Len(semmed_predication_file) :
           semmed_predication_file[i].SUBJECT_CUI # C6_
    /\ \E index \in yielded :
           index[1] = C6_ /\ id_keys(documents[index].subject) = {"umls"}
    /\ \E index \in yielded : id_keys(documents[index].subject) = {"ncbigene"}

\* The names the data frame gives a concept identifier under a semantic
\* type, on the subject side or on the object side.
semmed_names(cui, semtype) ==
    {pred_df[k].SUBJECT_NAME :
        k \in {i \in 1..Len(pred_df) : /\ pred_df[i].SUBJECT_PREFIX = "umls"
                                       /\ pred_df[i].SUBJECT_CUI = cui
                                       /\ pred_df[i].SUBJECT_SEMTYPE = semtype}}
    \cup
    {pred_df[k].OBJECT_NAME :
        k \in {i \in 1..Len(pred_df) : /\ pred_df[i].OBJECT_PREFIX = "umls"
                                       /\ pred_df[i].OBJECT_CUI = cui
                                       /\ pred_df[i].OBJECT_SEMTYPE = semtype}}

\* The names the UMLS file gives it.
umls_names(cui, semtype) ==
    {umls_cui_name_semtype_file[k].CONCEPT_NAME :
        k \in {i \in 1..Len(umls_cui_name_semtype_file) :
                  /\ umls_cui_name_semtype_file[i].CUI = cui
                  /\ umls_cui_name_semtype_file[i].SEMTYPE = semtype}}

\* A name of the data frame when it has one for the pair, a name of the UMLS
\* file otherwise.
preferred_name(name, cui, semtype) ==
    IF semmed_names(cui, semtype) # {}
    THEN name \in semmed_names(cui, semtype)
    ELSE name \in umls_names(cui, semtype)

\* C16: in the step map_retired_cuis every named row of the retirement
\* mapping, and every record whose subject or object the step replaces,
\* carries for its (replacement identifier, semantic type) pair a name from
\* the data frame the step was given when that data frame has one, and a name
\* from the UMLS file only when it has none.
C16_DatasetNamePreferred ==
    [][(pc = "add_prefix_columns" /\ pc' = "map_retired_cuis") =>
          /\ \A m \in 1..Len(retirement_mapping_df') :
                 retirement_mapping_df'[m].CUI2_NAME # NaN =>
                     preferred_name(retirement_mapping_df'[m].CUI2_NAME,
                                    retirement_mapping_df'[m].CUI2,
                                    retirement_mapping_df'[m].CUI2_SEMTYPE)
          /\ \A i \in 1..Len(pred_df), j \in 1..Len(pred_df') :
                 pred_df[i].PREDICATION_ID = pred_df'[j].PREDICATION_ID =>
                     /\ (\E m \in 1..Len(retirement_mapping_df') :
                            /\ retirement_mapping_df'[m].CUI1 = pred_df[i].SUBJECT_CUI
                            /\ retirement_mapping_df'[m].CUI2 = pred_df'[j].SUBJECT_CUI)
                         => preferred_name(pred_df'[j].SUBJECT_NAME, pred_df'[j].SUBJECT_CUI,
                                           pred_df'[j].SUBJECT_SEMTYPE)
                     /\ (\E m \in 1..Len(retirement_mapping_df') :
                            /\ retirement_mapping_df'[m].CUI1 = pred_df[i].OBJECT_CUI
                            /\ retirement_mapping_df'[m].CUI2 = pred_df'[j].OBJECT_CUI)
                         => preferred_name(pred_df'[j].OBJECT_NAME, pred_df'[j].OBJECT_CUI,
                                           pred_df'[j].OBJECT_SEMTYPE)]_vars

\* map_retired_cuis has replaced the subject C5 of a row by C6 and given it
\* the name "o" that the row's own object side has for (C6, dsyn), while the
\* UMLS file names the pair "y".
C16_Witness ==
    /\ pc = "map_retired_cuis"
    /\ <<"y">> \in umls_names(C6_, dsyn)
    /\ \E i \in 1..Len(semmed_predication_file), j \in 1..Len(pred_df) :
           /\ semmed_predication_file[i].SUBJECT_CUI = C5_
           /\ pred_df[j].PREDICATION_ID = semmed_predication_file[i].PREDICATION_ID
           /\ pred_df[j].SUBJECT_CUI = C6_
           /\ pred_df[j].SUBJECT_NAME = <<"o">>
           /\ pred_df[j].OBJECT_NAME = <<"o">>

\* CUI c is the concept identifier of a row of the data frame on a side that
\* holds a pipe in the row of the file the row comes from.
sent_for_piped_concept(c) ==
    \E k \in 1..Len(pred_df) :
        \/ /\ pred_df[k].SUBJECT_CUI = c
           /\ pred_df[k].SUBJECT_PREFIX = "umls"
           /\ str_contains_pipe(semmed_predication_file[pred_df[k].PREDICATION_ID].SUBJECT_CUI)
        \/ /\ pred_df[k].OBJECT_CUI = c
           /\ pred_df[k].OBJECT_PREFIX = "umls"
           /\ str_contains_pipe(semmed_predication_file[pred_df[k].PREDICATION_ID].OBJECT_CUI)

\* C17: every identifier posted to the Node Normalizer starts with "C" and is
\* the concept identifier (prefix "umls") of a row on a side that was piped
\* in the row of the file; gene identifiers and identifiers found on unpiped
\* sides only are not posted.
C17_OnlyPipedConceptsSent ==
    \A c \in queried : str_startswith_C(c) /\ sent_for_piped_concept(c)

\* A chunk was posted for a file that has a gene identifier in a piped field
\* and a concept identifier in unpiped fields only, and neither is in it.
C17_Witness ==
    /\ queried # {}
    /\ \E i \in 1..Len(semmed_predication_file) :
           /\ str_contains_pipe(semmed_predication_file[i].OBJECT_CUI)
           /\ \E g \in tokens(semmed_predication_file[i].OBJECT_CUI) :
                  ~str_startswith_C(g) /\ g \notin queried
    /\ \E i \in 1..Len(semmed_predication_file) :
           /\ ~str_contains_pipe(semmed_predication_file[i].SUBJECT_CUI)
           /\ str_startswith_C(semmed_predication_file[i].SUBJECT_CUI)
           /\ ~sent_for_piped_concept(semmed_predication_file[i].SUBJECT_CUI)
           /\ semmed_predication_file[i].SUBJECT_CUI \notin queried

\* The number of requests, answered or not, that carry the CUI c.
requests_with(c) ==
    Cardinality({i \in 1..Len(requests_sent) : c \in requests_sent[i].cui_chunk})
    + Cardinality({cui_chunk \in outstanding : c \in cui_chunk})

\* The concept identifiers of the rows of the data frame on sides that were
\* piped in the file: the candidates, as they can be read off the data frame
\* after delete_equivalent_ncbigene_ids has dropped the piped flags.
piped_concepts ==
    {c \in {pred_df[k].SUBJECT_CUI : k \in 1..Len(pred_df)}
            \cup {pred_df[k].OBJECT_CUI : k \in 1..Len(pred_df)} :
        sent_for_piped_concept(c)}

\* The steps after a delete_equivalent_ncbigene_ids that returned.
collapsed_steps == {"delete_equivalent_ncbigene_ids", "add_document_id_column",
                    "set_index", "generate_documents"}

\* C18: no request to the Node Normalizer carries more than chunk_size
\* identifiers, no identifier is carried by two requests, only candidates are
\* carried, with the cache file present no request is made, and without it
\* delete_equivalent_ncbigene_ids returns with every candidate carried by
\* exactly one request.
C18_RequestsPartitionCandidates ==
    /\ \A i \in 1..Len(requests_sent) :
           /\ Cardinality(requests_sent[i].cui_chunk) <= chunk_size
           /\ requests_sent[i].cui_chunk # {}
    /\ \A cui_chunk \in outstanding :
           Cardinality(cui_chunk) <= chunk_size /\ cui_chunk # {}
    /\ \A c \in queried : requests_with(c) = 1
    /\ pc = "query_node_normalizer_for_equivalent_ncbigene_ids" =>
           queried \subseteq cuis_to_query /\ cuis_to_query = piped_concepts
    /\ node_norm_cache.exists => requests_sent = <<>> /\ outstanding = {}
    /\ (pc \in collapsed_steps /\ ~node_norm_cache.exists) =>
           /\ outstanding = {}
           /\ \A c \in piped_concepts : requests_with(c) = 1
           /\ queried = piped_concepts

\* delete_equivalent_ncbigene_ids has returned after two requests, one with
\* chunk_size candidates and one with the candidate that was left.
C18_Witness ==
    /\ pc = "delete_equivalent_ncbigene_ids"
    /\ Len(requests_sent) = 2
    /\ Cardinality(requests_sent[1].cui_chunk) = chunk_size
    /\ Cardinality(requests_sent[2].cui_chunk) = 1
    /\ Cardinality(piped_concepts) = chunk_size + 1

\* The CUIs of the requests that were answered.
answered == UNION {requests_sent[i].cui_chunk : i \in 1..Len(requests_sent)}

\* C19: at every moment at most one request to the Node Normalizer is
\* outstanding, so never more than 10, and delete_equivalent_ncbigene_ids
\* computes the rows to drop only when no request is outstanding and every
\* request it made was answered.
C19_RequestsOutstanding ==
    /\ Cardinality(outstanding) <= 1
    /\ Cardinality(outstanding) <= 10
    /\ pc \in collapsed_steps =>
           /\ outstanding = {}
           /\ queried = answered
           /\ ~node_norm_cache.exists => answered = piped_concepts

\* The second request is outstanding after the first was answered.
C19_Witness ==
    /\ pc = "query_node_normalizer_for_equivalent_ncbigene_ids"
    /\ Len(requests_sent) = 1
    /\ Cardinality(outstanding) = 1
    /\ cuis_to_query \ queried = {}

\* The data frame with the rows of CUI c no longer flagged as piped, so that
\* c is no candidate.
not_candidate(df, c) ==
    [k \in 1..Len(df) |->
        [df[k] EXCEPT !.IS_SUBJECT_PIPED = @ /\ df[k].SUBJECT_CUI # c,
                      !.IS_OBJECT_PIPED = @ /\ df[k].OBJECT_CUI # c]]

\* C20: when delete_equivalent_ncbigene_ids returns, a CUI that the Node
\* Normalizer answered with null or without an identifier of the NCBIGene
\* namespace has no entry in the CUI to gene id map, and the rows left in the
\* data frame are those that would be left had the CUI been no candidate.
C20_NoGeneIdNoRemoval ==
    [][collapse_step =>
          \A i \in 1..Len(requests_sent') :
              \A c \in requests_sent'[i].without_gene_id :
                  /\ c \notin DOMAIN cui_gene_id_map'
                  /\ pred_df' = delete_equivalent_ncbigene_ids(not_candidate(pred_df, c),
                                                               cui_gene_id_map')]_vars

\* delete_equivalent_ncbigene_ids has returned, a CUI of a piped object field
\* was answered without a gene id, and the rows of the field's gene
\* identifier and of the CUI are both in the data frame.
C20_Witness ==
    /\ pc = "delete_equivalent_ncbigene_ids"
    /\ \E r \in 1..Len(requests_sent) : \E c \in requests_sent[r].without_gene_id :
       \E i \in valid_rows :
       \E g \in tokens(semmed_predication_file[i].OBJECT_CUI) :
           /\ c \in tokens(semmed_predication_file[i].OBJECT_CUI)
           /\ ~str_startswith_C(g)
           /\ has_object(pred_df, i, c)
           /\ has_object(pred_df, i, g)

\* The values the rows of a triple have in a column.
group_values(index, column) == {pred_df[k][column] : k \in group_of(index)}

\* A field of an entity is the one value of the group when the group has one,
\* and otherwise a list without duplicates of the values of the group.
squeezed_or_listed(field, values) ==
    IF Cardinality(values) = 1
    THEN field \in values
    ELSE /\ Len(field) = Cardinality(values)
         /\ Range(field) = values

\* C21: in every yielded document of a triple with several rows, name and
\* semantic_type_abbreviation of the subject and of the object are the one
\* value of the rows when they agree, and otherwise a list that holds each
\* distinct value of the rows once.
C21_ScalarOrDistinctList ==
    \A index \in yielded :
        Cardinality(group_of(index)) > 1 =>
            /\ squeezed_or_listed(documents[index].subject.name,
                                  group_values(index, "SUBJECT_NAME"))
            /\ squeezed_or_listed(documents[index].subject.semantic_type_abbreviation,
                                  group_values(index, "SUBJECT_SEMTYPE"))
            /\ squeezed_or_listed(documents[index].object.name,
                                  group_values(index, "OBJECT_NAME"))
            /\ squeezed_or_listed(documents[index].object.semantic_type_abbreviation,
                                  group_values(index, "OBJECT_SEMTYPE"))

\* A document of three rows is yielded whose subject has a list of two names
\* and a list of two abbreviations, and whose object has one name; another
\* has one subject name from rows with two abbreviations.
C21_Witness ==
    /\ \E index \in yielded :
           /\ Cardinality(group_of(index)) = 3
           /\ Cardinality(group_values(index, "SUBJECT_NAME")) = 2
           /\ Len(documents[index].subject.name) = 2
           /\ Len(documents[index].subject.semantic_type_abbreviation) = 2
           /\ documents[index].object.name \in group_values(index, "OBJECT_NAME")
    /\ \E index \in yielded :
           /\ Cardinality(group_values(index, "SUBJECT_NAME")) = 1
           /\ Cardinality(group_values(index, "SUBJECT_SEMTYPE")) = 2
           /\ documents[index].subject.name \in group_values(index, "SUBJECT_NAME")

\* A row without the two piped flags.
without_piped_flags(r) == drop_columns(r, {"IS_SUBJECT_PIPED", "IS_OBJECT_PIPED"})

\* The positions of the rows of df that are rows of kept_df, flags aside.
kept_rows(df, kept_df) ==
    {k \in 1..Len(df) : without_piped_flags(df[k]) \in Range(kept_df)}

\* Row k of df has, on a side flagged as piped, the gene id that the map
\* gives a concept identifier of a row of the same predication id on that
\* side.
removable(df, k, map) ==
    \/ /\ df[k].IS_SUBJECT_PIPED
       /\ \E cui \in DOMAIN map :
              map[cui] = df[k].SUBJECT_CUI /\ has_subject(df, df[k].PREDICATION_ID, cui)
    \/ /\ df[k].IS_OBJECT_PIPED
       /\ \E cui \in DOMAIN map :
              map[cui] = df[k].OBJECT_CUI /\ has_object(df, df[k].PREDICATION_ID, cui)

\* C22: delete_equivalent_ncbigene_ids keeps every row that is flagged as
\* piped on neither side, drops a row only for a side that is flagged as
\* piped and holds the gene id of a concept identifier of the same predication
\* id, and leaves the rows it keeps as they were, in their order, the two
\* flag columns aside.
C22_CollapserFrame ==
    [][collapse_step =>
          LET kept == kept_rows(pred_df, pred_df')
              ix   == SortedIdx(kept)
          IN  /\ \A k \in 1..Len(pred_df) :
                     (~pred_df[k].IS_SUBJECT_PIPED /\ ~pred_df[k].IS_OBJECT_PIPED)
                         => k \in kept
              /\ \A k \in (1..Len(pred_df)) \ kept :
                     removable(pred_df, k, cui_gene_id_map')
              /\ pred_df' = [j \in 1..Len(ix) |-> without_piped_flags(pred_df[ix[j]])]]_vars

\* delete_equivalent_ncbigene_ids has returned for a file with a row piped
\* in its object field and a row with no pipe: the rows of the piped row's
\* gene id are gone, a row of the piped row and the row with no pipe are
\* there.
C22_Witness ==
    /\ pc = "delete_equivalent_ncbigene_ids"
    /\ \E i, j \in valid_rows :
           /\ str_contains_pipe(semmed_predication_file[i].OBJECT_CUI)
           /\ \E g \in tokens(semmed_predication_file[i].OBJECT_CUI) :
                  ~str_startswith_C(g) /\ ~has_object(pred_df, i, g)
           /\ rows_of(i) # {}
           /\ ~str_contains_pipe(semmed_predication_file[j].SUBJECT_CUI)
           /\ ~str_contains_pipe(semmed_predication_file[j].OBJECT_CUI)
           /\ Cardinality(rows_of(j)) = 1

\* The step map_retired_cuis.
map_step == pc = "add_prefix_columns" /\ pc' = "map_retired_cuis"

\* The CUI1 keys of the retirement mapping the step builds.
retired_cuis == {retirement_mapping_df'[i].CUI1 : i \in 1..Len(retirement_mapping_df')}

\* The rows of the data frame after the step that are no row of the data
\* frame before it.
resolved_rows == {j \in 1..Len(pred_df') : pred_df'[j] \notin Range(pred_df)}

\* C23: map_retired_cuis leaves every row whose subject and object are no
\* CUI1 of the retirement mapping in the data frame once and unchanged; a row
\* it makes from a row retired in the subject alone differs from it in
\* SUBJECT_CUI and SUBJECT_NAME at most, a row it makes from a row retired in
\* the object alone in OBJECT_CUI and OBJECT_NAME at most, so the semantic
\* type of the replaced side is the one it had.
C23_ResolverFrame ==
    [][map_step =>
          /\ \A k \in 1..Len(pred_df) :
                 (pred_df[k].SUBJECT_CUI \notin retired_cuis
                  /\ pred_df[k].OBJECT_CUI \notin retired_cuis) =>
                     Cardinality({j \in 1..Len(pred_df') : pred_df'[j] = pred_df[k]}) = 1
          /\ \A k \in 1..Len(pred_df), j \in resolved_rows :
                 pred_df'[j].PREDICATION_ID = pred_df[k].PREDICATION_ID =>
                     /\ (pred_df[k].SUBJECT_CUI \in retired_cuis
                         /\ pred_df[k].OBJECT_CUI \notin retired_cuis
                         /\ pred_df'[j].OBJECT_CUI = pred_df[k].OBJECT_CUI) =>
                            [pred_df'[j] EXCEPT !.SUBJECT_CUI = pred_df[k].SUBJECT_CUI,
                                                !.SUBJECT_NAME = pred_df[k].SUBJECT_NAME]
                                = pred_df[k]
                     /\ (pred_df[k].OBJECT_CUI \in retired_cuis
                         /\ pred_df[k].SUBJECT_CUI \notin retired_cuis
                         /\ pred_df'[j].SUBJECT_CUI = pred_df[k].SUBJECT_CUI) =>
                            [pred_df'[j] EXCEPT !.OBJECT_CUI = pred_df[k].OBJECT_CUI,
                                                !.OBJECT_NAME = pred_df[k].OBJECT_NAME]
                                = pred_df[k]]_vars

\* map_retired_cuis has returned: the row of a file row with the retired
\* subject C5 and the object C2 has a replacement as its subject, the object
\* and the semantic types of the file row, and the four rows of a piped file
\* row are in the data frame.
C23_Witness ==
    /\ pc = "map_retired_cuis"
    /\ \E i \in not_deleted_rows : \E k \in rows_of(i) :
           /\ semmed_predication_file[i].SUBJECT_CUI = C5_
           /\ semmed_predication_file[i].OBJECT_CUI = C2_
           /\ C2_ \notin retired_keys
           /\ pred_df[k].SUBJECT_CUI \in replacement_cuis
           /\ pred_df[k].SUBJECT_NAME # semmed_predication_file[i].SUBJECT_NAME
           /\ pred_df[k].SUBJECT_SEMTYPE = semmed_predication_file[i].SUBJECT_SEMTYPE
           /\ pred_df[k].OBJECT_CUI = C2_
    /\ \E i \in valid_rows :
           /\ str_contains_pipe(semmed_predication_file[i].SUBJECT_CUI)
           /\ Cardinality(rows_of(i)) = 4

\* The retirement mapping replaces cui by cui2 under the semantic type, with
\* a name.
replaces(cui, semtype, cui2, name) ==
    \E m \in 1..Len(retirement_mapping_df) :
        /\ retirement_mapping_df[m].CUI1 = cui
        /\ retirement_mapping_df[m].CUI2_SEMTYPE = semtype
        /\ retirement_mapping_df[m].CUI2 = cui2
        /\ retirement_mapping_df[m].CUI2_NAME = name
        /\ name # NaN

\* The file rows that reach map_retired_cuis with a retired subject and a
\* retired object.
retired_on_both_sides ==
    {i \in not_deleted_rows :
        /\ semmed_predication_file[i].SUBJECT_CUI \in retired_keys
        /\ semmed_predication_file[i].OBJECT_CUI \in retired_keys}

\* C24: when map_retired_cuis has returned, a file row retired on both sides
\* has a row in the data frame exactly when the retirement mapping has a
\* named replacement of the same semantic type for its subject and one for
\* its object, and every row it has carries such a replacement, with its
\* name, on the subject and on the object.
C24_BothSidesResolved ==
    pc = "map_retired_cuis" =>
        \A i \in retired_on_both_sides :
            LET r == semmed_predication_file[i]
            IN  /\ rows_of(i) # {} <=>
                       /\ has_replacement(r.SUBJECT_CUI, r.SUBJECT_SEMTYPE)
                       /\ has_replacement(r.OBJECT_CUI, r.OBJECT_SEMTYPE)
                /\ \A k \in rows_of(i) :
                       /\ replaces(r.SUBJECT_CUI, r.SUBJECT_SEMTYPE,
                                   pred_df[k].SUBJECT_CUI, pred_df[k].SUBJECT_NAME)
                       /\ pred_df[k].SUBJECT_SEMTYPE = r.SUBJECT_SEMTYPE
                       /\ replaces(r.OBJECT_CUI, r.OBJECT_SEMTYPE,
                                   pred_df[k].OBJECT_CUI, pred_df[k].OBJECT_NAME)
                       /\ pred_df[k].OBJECT_SEMTYPE = r.OBJECT_SEMTYPE

\* map_retired_cuis has returned and the row of a file row with the retired
\* subject C5 and the retired object C7 has the subject C6 and the object C8.
C24_Witness ==
    /\ pc = "map_retired_cuis"
    /\ \E i \in retired_on_both_sides : \E k \in rows_of(i) :
           /\ semmed_predication_file[i].SUBJECT_CUI = C5_
           /\ semmed_predication_file[i].OBJECT_CUI = C7_
           /\ pred_df[k].SUBJECT_CUI = C6_
           /\ pred_df[k].OBJECT_CUI = C8_

\* Row j comes before row k of the same predication id: its subject is the
\* greater string, or the subjects are equal and its object is the greater
\* string.
ranked_before(j, k) ==
    \/ StrLess(pred_df[k].SUBJECT_CUI, pred_df[j].SUBJECT_CUI)
    \/ /\ pred_df[j].SUBJECT_CUI = pred_df[k].SUBJECT_CUI
       /\ StrLess(pred_df[k].OBJECT_CUI, pred_df[j].OBJECT_CUI)

\* The rank of row k among the rows of its predication id.
rank_in_predication(k) ==
    Cardinality({j \in rows_of(pred_df[k].PREDICATION_ID) : ranked_before(j, k)}) + 1

\* Concept identifiers come before gene identifiers: a row that comes before
\* another has no gene subject against a concept subject, and with equal
\* subjects no gene object against a concept object.
concepts_precede_genes ==
    \A j, k \in 1..Len(pred_df) :
        (pred_df[j].PREDICATION_ID = pred_df[k].PREDICATION_ID /\ ranked_before(j, k)) =>
            /\ ~(~str_startswith_C(pred_df[j].SUBJECT_CUI)
                 /\ str_startswith_C(pred_df[k].SUBJECT_CUI))
            /\ pred_df[j].SUBJECT_CUI = pred_df[k].SUBJECT_CUI =>
                   ~(~str_startswith_C(pred_df[j].OBJECT_CUI)
                     /\ str_startswith_C(pred_df[k].OBJECT_CUI))

\* C25: when add_document_id_column has returned, the _ID of a row that is the
\* only row of its predication id is the predication id, the _ID of any other
\* row is the predication id, "-" and the rank of the row among the rows of
\* its predication id, in an order in which concept identifiers come before
\* gene identifiers on the subject and then on the object, and no two rows
\* have the same _ID.
C25_DocumentIdColumn ==
    pc = "add_document_id_column" =>
        /\ \A k \in 1..Len(pred_df) :
               pred_df[k]._ID =
                   IF Cardinality(rows_of(pred_df[k].PREDICATION_ID)) = 1
                   THEN IntToStr(pred_df[k].PREDICATION_ID)
                   ELSE suffixed_id(pred_df[k].PREDICATION_ID, rank_in_predication(k))
        /\ \A k \in 1..Len(pred_df) :
               rank_in_predication(k) \in 1..Cardinality(rows_of(pred_df[k].PREDICATION_ID))
        /\ concepts_precede_genes
        /\ \A j, k \in 1..Len(pred_df) : j # k => pred_df[j]._ID # pred_df[k]._ID

\* add_document_id_column has returned: a predication id with a piped field
\* has one row left, with the bare id, and another has two rows, numbered 1
\* and 2, the first of them with the greater object identifier.
C25_Witness ==
    /\ pc = "add_document_id_column"
    /\ \E k \in 1..Len(pred_df) :
           /\ Cardinality(rows_of(pred_df[k].PREDICATION_ID)) = 1
           /\ str_contains_pipe(semmed_predication_file[pred_df[k].PREDICATION_ID].SUBJECT_CUI)
           /\ pred_df[k]._ID = IntToStr(pred_df[k].PREDICATION_ID)
    /\ \E j, k \in 1..Len(pred_df) :
           /\ pred_df[j].PREDICATION_ID = pred_df[k].PREDICATION_ID
           /\ StrLess(pred_df[k].OBJECT_CUI, pred_df[j].OBJECT_CUI)
           /\ pred_df[j]._ID = suffixed_id(pred_df[j].PREDICATION_ID, 1)
           /\ pred_df[k]._ID = suffixed_id(pred_df[k].PREDICATION_ID, 2)

\* C26 as claimed: when delete_equivalent_ncbigene_ids has returned, no
\* predication id has, on one side, a row with a concept identifier and a row
\* with the gene id that the CUI to gene id map gives that concept identifier,
\* fields with several concept identifiers included.
C26_NoEquivalentPairLeft ==
    pc = "delete_equivalent_ncbigene_ids" =>
        \A j, k \in 1..Len(pred_df) :
            pred_df[j].PREDICATION_ID = pred_df[k].PREDICATION_ID =>
                /\ ~(/\ pred_df[j].SUBJECT_CUI \in DOMAIN cui_gene_id_map
                     /\ cui_gene_id_map[pred_df[j].SUBJECT_CUI] = pred_df[k].SUBJECT_CUI)
                /\ ~(/\ pred_df[j].OBJECT_CUI \in DOMAIN cui_gene_id_map
                     /\ cui_gene_id_map[pred_df[j].OBJECT_CUI] = pred_df[k].OBJECT_CUI)

\* The predication ids of the rows of a data frame.
predication_ids(df) == {df[k].PREDICATION_ID : k \in 1..Len(df)}

\* A gene id of the CUI to gene id map has the shape of a concept identifier.
gene_id_like_cui(map) == \E cui \in DOMAIN map : str_startswith_C(map[cui])

\* C27: delete_equivalent_ncbigene_ids never removes every row of a
\* predication id: when no gene id of the map starts with "C", every
\* predication id with a row before the step has a row after it.
C27_PredicationKept ==
    [][(collapse_step /\ ~gene_id_like_cui(cui_gene_id_map')) =>
          predication_ids(pred_df) \subseteq predication_ids(pred_df')]_vars

\* delete_equivalent_ncbigene_ids has returned for a file with a row piped
\* on both sides, each field with a concept identifier and its gene id: of the
\* four rows of the row the three with a gene id are gone and one is left.
C27_Witness ==
    /\ pc = "delete_equivalent_ncbigene_ids"
    /\ \E i \in valid_rows : \E s, o \in DOMAIN cui_gene_id_map :
           /\ tokens(semmed_predication_file[i].SUBJECT_CUI) = {s, cui_gene_id_map[s]}
           /\ tokens(semmed_predication_file[i].OBJECT_CUI) = {o, cui_gene_id_map[o]}
           /\ ~str_startswith_C(cui_gene_id_map[s])
           /\ ~str_startswith_C(cui_gene_id_map[o])
           /\ Cardinality(rows_of(i)) = 1

\* The index tuples of the rows of a data frame.
triples(df) == {index_of(df[k]) : k \in 1..Len(df)}

\* An identifier of the shape of a concept identifier or of a gene id: an
\* optional "C" and digits.
id_shaped(cui) ==
    /\ Len(cui) > 0
    /\ \A i \in 1..Len(cui) :
          \/ cui[i] \in {"0", "1", "2", "3", "4", "5", "6", "7", "8", "9"}
          \/ i = 1 /\ cui[i] = "C" /\ Len(cui) > 1

====
